---- MODULE Spec2Model ----
(***************************************************************************)
(* Tidepool TypeScript client (src/src/index.ts): the withRetry helper and *)
(* the TidepoolClient facade over its private request() transport call.    *)
(*                                                                         *)
(* Every action is one synchronous segment of the JavaScript code, from    *)
(* one await to the next.  Optional JavaScript values are sequences of     *)
(* length at most one: <<>> is undefined, <<v>> is the value v.            *)
(***************************************************************************)
EXTENDS Integers, Sequences, FiniteSets, TLC

VARIABLES
    \* ---- withRetry, one entry per running call of the helper
    rpc,        \* position: "idle", "calling" (await fn()), "sleeping", "done"
    maxRetries, \* parameter maxRetries of the call
    baseDelay,  \* parameter baseDelay of the call
    attempt,    \* loop variable attempt
    fnCalls,    \* number of times fn was invoked
    fnLog,      \* what each finished invocation of fn did
    sleeps,     \* the delays handed to setTimeout, in order
    rres,       \* what withRetry did: pending, return or throw
    \* ---- the client and its environment
    config,     \* the argument of new TidepoolClient(config)
    constructed, \* what the constructor did: pending, return or throw
    client,     \* the TidepoolClient: queryUrl, ingestUrl, timeout, namespace
    env,        \* which globals exist: fetch, Headers
    \* ---- the facade operations, one entry per caller
    pc,         \* position: "idle", "awaitFetch", "awaitBody", "done"
    call,       \* the operation called and its arguments
    timer,      \* timeoutId: "none", "pending", "cleared", "fired" (while the
                \* operation ran) or "late" (after the operation ended)
    aborted,    \* controller.signal.aborted, per AbortController
    fetchCalls, \* number of calls of fetch made by the operation
    sent,       \* the arguments of that fetch call
    response,   \* the Response fetch resolved with
    bodyEnd,    \* how the read of its body ended: "none" (not read),
                \* "complete", "streamError" or "abort"
    result      \* what the operation did: pending, return or throw

retryVars == <<rpc, maxRetries, baseDelay, attempt, fnCalls, fnLog, sleeps, rres>>
configVars == <<config, constructed, client, env>>
callVars == <<pc, call, timer, aborted, fetchCalls, sent, response, bodyEnd,
              result>>

vars == <<retryVars, configVars, callVars>>

----------------------------------------------------------------------------
(* Bounds of the model *)

\* the longest vector handed to validateVector
MaxVectorLen == 2

\* largest explicit maxRetries argument tried
MaxRetriesArg == 3

----------------------------------------------------------------------------
(* Values *)

Undefined == <<>>
Some(v) == <<v>>
OrElse(opt, dflt) == IF opt = Undefined THEN dflt ELSE opt[1]

Min(a, b) == IF a <= b THEN a ELSE b

RECURSIVE Pow2(_)
Pow2(n) == IF n <= 0 THEN 1 ELSE 2 * Pow2(n - 1)

Pending == [kind |-> "pending"]
Return(v) == [kind |-> "return", value |-> v]
Throw(e) == [kind |-> "throw", error |-> e]

----------------------------------------------------------------------------
(* withRetry *)

Runners == {1, 2}

DEFAULT_MAX_RETRIES == 3
DEFAULT_BASE_DELAY == 500
MAX_DELAY == 10000

\* the classes an error thrown by fn can have; "Error" is any error that is
\* not a TidepoolError
ErrorNames == {"ServiceUnavailableError", "ValidationError", "NotFoundError",
               "TidepoolError", "Error"}

\* arguments a caller passes: omitted, or an explicit number
MaxRetriesArgs == {Undefined} \cup {Some(n) : n \in -1 .. MaxRetriesArg}
BaseDelayArgs == {Undefined, Some(0), Some(1), Some(3000), Some(20000)}
FnValues == {"ok", "other"}

\* error instanceof ServiceUnavailableError
IsServiceUnavailable(e) == e.name = "ServiceUnavailableError"

\* variants of the catch clause's test: retrying every error kind, never
\* giving up on a ServiceUnavailableError, and never retrying at all
RethrowsOnlyWhenExhausted(att, maxR, e) == att = maxR
RethrowsOnlyOtherKinds(att, maxR, e) == ~IsServiceUnavailable(e)
RethrowsAlways(att, maxR, e) == TRUE

\* the catch clause rethrows instead of sleeping
Rethrows(att, maxR, e) == att = maxR \/ ~IsServiceUnavailable(e)

\* variant of the delay without its cap
DelayUncapped(base, att) == base * Pow2(att)

\* Math.min(baseDelay * Math.pow(2, attempt), 10000)
Delay(base, att) == Min(base * Pow2(att), MAX_DELAY)

\* the loop head at the given attempt: enter the body and call fn, or fall
\* out of the loop and throw Error("Unreachable")
\* variant of the loop head that returns undefined when the loop is left
LoopHeadFallsThrough(r, att) ==
    IF att <= maxRetries'[r]
    THEN /\ rpc' = [rpc EXCEPT ![r] = "calling"]
         /\ fnCalls' = [fnCalls EXCEPT ![r] = @ + 1]
         /\ rres' = rres
    ELSE /\ rpc' = [rpc EXCEPT ![r] = "done"]
         /\ fnCalls' = fnCalls
         /\ rres' = [rres EXCEPT ![r] = Return("undefined")]

\* variant of the loop head in which the runs count their invocations in
\* one counter
LoopHeadSharedCounter(r, att) ==
    IF att <= maxRetries'[r]
    THEN /\ rpc' = [rpc EXCEPT ![r] = "calling"]
         /\ fnCalls' = [q \in Runners |-> fnCalls[q] + 1]
         /\ rres' = rres
    ELSE /\ rpc' = [rpc EXCEPT ![r] = "done"]
         /\ fnCalls' = fnCalls
         /\ rres' = [rres EXCEPT ![r] =
                        Throw([name |-> "Error", at |-> 0])]

LoopHead(r, att) ==
    IF att <= maxRetries'[r]
    THEN /\ rpc' = [rpc EXCEPT ![r] = "calling"]
         /\ fnCalls' = [fnCalls EXCEPT ![r] = @ + 1]
         /\ rres' = rres
    ELSE /\ rpc' = [rpc EXCEPT ![r] = "done"]
         /\ fnCalls' = fnCalls
         /\ rres' = [rres EXCEPT ![r] =
                        Throw([name |-> "Error", at |-> 0])]

\* withRetry(fn, maxRetries, baseDelay) is called: defaults are applied and
\* the first iteration runs up to its await
withRetry(r, mr, bd) ==
    /\ rpc[r] = "idle"
    /\ maxRetries' = [maxRetries EXCEPT ![r] = OrElse(mr, DEFAULT_MAX_RETRIES)]
    /\ baseDelay' = [baseDelay EXCEPT ![r] = OrElse(bd, DEFAULT_BASE_DELAY)]
    /\ attempt' = [attempt EXCEPT ![r] = 0]
    /\ LoopHead(r, 0)
    /\ UNCHANGED <<fnLog, sleeps>>

\* fn() resolves with v: return await fn()
FnReturns(r, v) ==
    /\ rpc[r] = "calling"
    /\ fnLog' = [fnLog EXCEPT ![r] = Append(@, Return(v))]
    /\ rres' = [rres EXCEPT ![r] = Return(v)]
    /\ rpc' = [rpc EXCEPT ![r] = "done"]
    /\ UNCHANGED <<maxRetries, baseDelay, attempt, fnCalls, sleeps>>

\* fn() rejects with an error of class name: the catch clause
FnThrows(r, name) ==
    LET e == [name |-> name, at |-> fnCalls[r]] IN
    /\ rpc[r] = "calling"
    /\ fnLog' = [fnLog EXCEPT ![r] = Append(@, Throw(e))]
    /\ IF Rethrows(attempt[r], maxRetries[r], e)
       THEN /\ rres' = [rres EXCEPT ![r] = Throw(e)]
            /\ rpc' = [rpc EXCEPT ![r] = "done"]
            /\ sleeps' = sleeps
       ELSE /\ sleeps' = [sleeps EXCEPT ![r] =
                             Append(@, Delay(baseDelay[r], attempt[r]))]
            /\ rpc' = [rpc EXCEPT ![r] = "sleeping"]
            /\ rres' = rres
    /\ UNCHANGED <<maxRetries, baseDelay, attempt, fnCalls>>

\* the backoff timer fires: attempt++ and the next iteration
Wake(r) ==
    /\ rpc[r] = "sleeping"
    /\ attempt' = [attempt EXCEPT ![r] = @ + 1]
    /\ UNCHANGED <<maxRetries, baseDelay, fnLog, sleeps>>
    /\ LoopHead(r, attempt[r] + 1)

----------------------------------------------------------------------------
(* JavaScript values                                                       *)
(*                                                                         *)
(* A string is the sequence of its pieces; the piece " " is white space,   *)
(* every other piece is non-blank text.  A number is n/d: d = 0 is not     *)
(* finite (n = 0 is NaN, otherwise an infinity).                           *)

JUndefined == [t |-> "undefined"]
JNull == [t |-> "null"]
JBool(b) == [t |-> "boolean", b |-> b]
JStr(s) == [t |-> "string", s |-> s]
JNum(n) == [t |-> "number", n |-> n, d |-> 1]
JFrac(n, d) == [t |-> "number", n |-> n, d |-> d]
JNaN == [t |-> "number", n |-> 0, d |-> 0]
JInfinity == [t |-> "number", n |-> 1, d |-> 0]
JArr(items) == [t |-> "array", items |-> items]
JObj(fields) == [t |-> "object", fields |-> fields]

\* v === undefined || v === null, the test of the ?? and ?. operators
Nullish(v) == v.t \in {"undefined", "null"}
\* a ?? b
Coalesce(a, b) == IF Nullish(a) THEN b ELSE a
\* v?.key for the values above: a property of an object, undefined for
\* every other value
Get(v, key) ==
    IF v.t = "object" /\ key \in DOMAIN v.fields THEN v.fields[key]
    ELSE JUndefined
\* the value is true in a condition
Truthy(v) ==
    CASE v.t \in {"undefined", "null"} -> FALSE
      [] v.t = "boolean" -> v.b
      [] v.t = "string" -> v.s # <<>>
      [] v.t = "number" -> v.n # 0
      [] OTHER -> TRUE
\* Array.isArray(v)
IsArray(v) == v.t = "array"
\* typeof v === "number" && Number.isFinite(v)
IsFiniteNumber(v) == v.t = "number" /\ v.d # 0
\* Number.isInteger(v) of a finite number
IsInteger(v) == v.t = "number" /\ v.d # 0 /\ v.n % v.d = 0

\* a non-negative integer in decimal, one piece per digit
Digit(n) ==
    CASE n = 0 -> "0" [] n = 1 -> "1" [] n = 2 -> "2" [] n = 3 -> "3"
      [] n = 4 -> "4" [] n = 5 -> "5" [] n = 6 -> "6" [] n = 7 -> "7"
      [] n = 8 -> "8" [] n = 9 -> "9"
RECURSIVE IntToStr(_)
IntToStr(n) ==
    IF n < 10 THEN <<Digit(n)>> ELSE IntToStr(n \div 10) \o <<Digit(n % 10)>>

\* String.prototype.trim
RECURSIVE TrimStart(_)
TrimStart(s) ==
    IF s # <<>> /\ Head(s) = " " THEN TrimStart(Tail(s)) ELSE s
RECURSIVE TrimEnd(_)
TrimEnd(s) ==
    IF s # <<>> /\ s[Len(s)] = " " THEN TrimEnd(SubSeq(s, 1, Len(s) - 1))
    ELSE s
Trim(s) == TrimEnd(TrimStart(s))

----------------------------------------------------------------------------
(* Errors *)

\* new TidepoolError(message, statusCode, response)
TidepoolError(message, statusCode, body) ==
    [name |-> "TidepoolError", message |-> message,
     statusCode |-> statusCode, response |-> body]
\* new ValidationError(message): no status code, no response
ValidationError(message) ==
    [name |-> "ValidationError", message |-> message,
     statusCode |-> Undefined, response |-> JUndefined]
NotFoundError(message) ==
    [name |-> "NotFoundError", message |-> message,
     statusCode |-> Some(404), response |-> JUndefined]
ServiceUnavailableError(message) ==
    [name |-> "ServiceUnavailableError", message |-> message,
     statusCode |-> Some(503), response |-> JUndefined]
\* an error of the runtime or the transport: TypeError, ReferenceError,
\* SyntaxError, AbortError
RuntimeError(name, message) ==
    [name |-> name, message |-> message,
     statusCode |-> Undefined, response |-> JUndefined]

TidepoolErrorNames == {"TidepoolError", "ValidationError", "NotFoundError",
                       "ServiceUnavailableError"}
\* error instanceof TidepoolError
IsTidepoolError(e) == e.name \in TidepoolErrorNames

\* the outcome of a step that can throw: a value or an error
Ok(v) == [ok |-> TRUE, value |-> v]
Fail(e) == [ok |-> FALSE, error |-> e]

----------------------------------------------------------------------------
(* Validation primitives *)

ensureNonEmptyString(value, fieldName) ==
    IF value.t # "string" \/ Trim(value.s) = <<>>
    THEN Fail(ValidationError(JStr(<<fieldName, " must be a non-empty string">>)))
    ELSE Ok(JStr(Trim(value.s)))

normalizeNamespace(namespace) == ensureNonEmptyString(namespace, "namespace")

\* variant of validateVector that compares the length before it looks at
\* the elements
validateVectorLengthFirst(vector, expectedDims) ==
    IF ~IsArray(vector)
    THEN Fail(ValidationError(JStr(<<"Vector must be an array">>)))
    ELSE IF Len(vector.items) = 0
    THEN Fail(ValidationError(JStr(<<"Vector cannot be empty">>)))
    ELSE IF expectedDims # Undefined /\ Len(vector.items) # expectedDims[1]
    THEN Fail(ValidationError(JStr(
             <<"Expected ">> \o IntToStr(expectedDims[1]) \o
             <<" dimensions, got ">> \o IntToStr(Len(vector.items)))))
    ELSE IF \E i \in 1 .. Len(vector.items) : ~IsFiniteNumber(vector.items[i])
    THEN Fail(ValidationError(JStr(<<"Vector must contain only finite numbers">>)))
    ELSE Ok(vector)

\* expectedDims is optional
validateVector(vector, expectedDims) ==
    IF ~IsArray(vector)
    THEN Fail(ValidationError(JStr(<<"Vector must be an array">>)))
    ELSE IF Len(vector.items) = 0
    THEN Fail(ValidationError(JStr(<<"Vector cannot be empty">>)))
    ELSE IF \E i \in 1 .. Len(vector.items) : ~IsFiniteNumber(vector.items[i])
    THEN Fail(ValidationError(JStr(<<"Vector must contain only finite numbers">>)))
    ELSE IF expectedDims # Undefined /\ Len(vector.items) # expectedDims[1]
    THEN Fail(ValidationError(JStr(
             <<"Expected ">> \o IntToStr(expectedDims[1]) \o
             <<" dimensions, got ">> \o IntToStr(Len(vector.items)))))
    ELSE Ok(vector)

ensurePositiveInt(value, fieldName) ==
    IF ~IsFiniteNumber(value) \/ value.n <= 0 \/ ~IsInteger(value)
    THEN Fail(ValidationError(JStr(<<fieldName, " must be a positive integer">>)))
    ELSE Ok(value)

\* the loop of validateDocuments from document i on
RECURSIVE validateDocumentsFrom(_, _, _)
validateDocumentsFrom(documents, i, expectedDims) ==
    IF i > Len(documents) THEN Ok(JUndefined)
    ELSE LET doc == documents[i]
             idCheck == ensureNonEmptyString(Get(doc, "id"), "id")
             vecCheck == validateVector(Get(doc, "vector"), Some(expectedDims))
         IN  IF ~idCheck.ok THEN idCheck
             ELSE IF ~vecCheck.ok THEN vecCheck
             ELSE validateDocumentsFrom(documents, i + 1, expectedDims)

validateDocuments(documents) ==
    IF ~IsArray(documents) \/ Len(documents.items) = 0
    THEN Fail(ValidationError(JStr(<<"vectors must be a non-empty array">>)))
    ELSE LET first == documents.items[1]
             idCheck == ensureNonEmptyString(Get(first, "id"), "id")
             vecCheck == validateVector(Get(first, "vector"), Undefined)
         IN  IF ~idCheck.ok THEN idCheck
             ELSE IF ~vecCheck.ok THEN vecCheck
             ELSE validateDocumentsFrom(documents.items, 1,
                                        Len(Get(first, "vector").items))

RECURSIVE validateIdsFrom(_, _)
validateIdsFrom(ids, i) ==
    IF i > Len(ids) THEN Ok(JUndefined)
    ELSE LET idCheck == ensureNonEmptyString(ids[i], "id")
         IN  IF ~idCheck.ok THEN idCheck ELSE validateIdsFrom(ids, i + 1)

validateIds(ids) ==
    IF ~IsArray(ids) \/ Len(ids.items) = 0
    THEN Fail(ValidationError(JStr(<<"ids must be a non-empty array">>)))
    ELSE validateIdsFrom(ids.items, 1)

\* variant of mapError without the case 413
mapErrorWithout413(status, message, body) ==
    CASE status = 400 -> ValidationError(message)
      [] status = 404 -> NotFoundError(message)
      [] status = 503 -> ServiceUnavailableError(message)
      [] OTHER -> TidepoolError(message, Some(status), body)

\* HTTP status and message to the error class
mapError(status, message, body) ==
    CASE status \in {400, 413} -> ValidationError(message)
      [] status = 404 -> NotFoundError(message)
      [] status = 503 -> ServiceUnavailableError(message)
      [] OTHER -> TidepoolError(message, Some(status), body)

----------------------------------------------------------------------------
(* Configuration and construction *)

DEFAULT_QUERY_URL == <<"http://localhost:8080">>
DEFAULT_INGEST_URL == <<"http://localhost:8081">>
DEFAULT_TIMEOUT == 30000
DEFAULT_NAMESPACE == <<"default">>

\* variant of the constructor that lets a timeout of 0 pass
NewTidepoolClientZeroTimeout(cfg) ==
    LET queryUrl == OrElse(cfg.queryUrl, JStr(DEFAULT_QUERY_URL))
        ingestUrl == OrElse(cfg.ingestUrl, JStr(DEFAULT_INGEST_URL))
        timeout == OrElse(cfg.timeout, JNum(DEFAULT_TIMEOUT))
        namespace == OrElse(cfg.namespace, JStr(DEFAULT_NAMESPACE))
        q == ensureNonEmptyString(queryUrl, "queryUrl")
        i == ensureNonEmptyString(ingestUrl, "ingestUrl")
        n == normalizeNamespace(namespace)
    IN  IF ~q.ok THEN q
        ELSE IF ~i.ok THEN i
        ELSE IF ~IsFiniteNumber(timeout) \/ timeout.n < 0
        THEN Fail(ValidationError(JStr(<<"timeout must be a positive number">>)))
        ELSE IF ~n.ok THEN n
        ELSE Ok([queryUrl |-> queryUrl, ingestUrl |-> ingestUrl,
                 timeout |-> timeout, namespace |-> n.value])

\* new TidepoolClient(config): config holds the optional fields queryUrl,
\* ingestUrl, timeout and namespace.  The URLs are checked but stored as
\* given; the namespace is stored trimmed.
NewTidepoolClient(cfg) ==
    LET queryUrl == OrElse(cfg.queryUrl, JStr(DEFAULT_QUERY_URL))
        ingestUrl == OrElse(cfg.ingestUrl, JStr(DEFAULT_INGEST_URL))
        timeout == OrElse(cfg.timeout, JNum(DEFAULT_TIMEOUT))
        namespace == OrElse(cfg.namespace, JStr(DEFAULT_NAMESPACE))
        q == ensureNonEmptyString(queryUrl, "queryUrl")
        i == ensureNonEmptyString(ingestUrl, "ingestUrl")
        n == normalizeNamespace(namespace)
    IN  IF ~q.ok THEN q
        ELSE IF ~i.ok THEN i
        ELSE IF ~IsFiniteNumber(timeout) \/ timeout.n <= 0
        THEN Fail(ValidationError(JStr(<<"timeout must be a positive number">>)))
        ELSE IF ~n.ok THEN n
        ELSE Ok([queryUrl |-> queryUrl, ingestUrl |-> ingestUrl,
                 timeout |-> timeout, namespace |-> n.value])

\* the origins the URL parser accepts as a base in this model; every other
\* base string makes new URL(path, base) throw
Origins == {"http://localhost:8080", "http://localhost:8081"}

\* new URL(s): the string s alone as a URL
ParseUrl(s) ==
    LET base == Trim(s) IN
    IF base = <<>> \/ Head(base) \notin Origins
    THEN Fail(RuntimeError("TypeError", JStr(<<"Invalid URL">>)))
    ELSE Ok(base)

\* a piece of a path as the URL serializer writes it
EncodePiece(piece) == IF piece = " " THEN "%20" ELSE piece

\* variant of resolveUrl with the arguments of new URL swapped: the path
\* is taken as the base
resolveUrlSwapped(baseUrl, path) ==
    LET base == ParseUrl(path) IN
    IF ~base.ok THEN base
    ELSE Ok(JStr(<<Head(base.value)>>
                 \o [k \in 1 .. Len(baseUrl.s) |-> EncodePiece(baseUrl.s[k])]))

\* new URL(path, baseUrl).toString() for an absolute path: the base is
\* stripped of surrounding white space, its own path is replaced by path
resolveUrl(baseUrl, path) ==
    LET base == ParseUrl(baseUrl.s) IN
    IF ~base.ok THEN base
    ELSE Ok(JStr(<<Head(base.value)>>
                 \o [k \in 1 .. Len(path) |-> EncodePiece(path[k])]))

----------------------------------------------------------------------------
(* Conversions used by the normalizers *)

\* Number(v)
NumberOf(v) ==
    CASE v.t = "number" -> v
      [] v.t = "null" -> JNum(0)
      [] v.t = "boolean" -> JNum(IF v.b THEN 1 ELSE 0)
      [] v.t = "string" ->
            LET s == Trim(v.s) IN
            IF s = <<>> THEN JNum(0)
            ELSE IF Len(s) = 1 /\ \E n \in 0 .. 9 : s[1] = Digit(n)
            THEN JNum(CHOOSE n \in 0 .. 9 : s[1] = Digit(n))
            ELSE JNaN
      [] v.t = "array" -> IF v.items = <<>> THEN JNum(0) ELSE JNaN
      [] OTHER -> JNaN

\* String(v)
StringOf(v) ==
    CASE v.t = "string" -> v
      [] v.t = "undefined" -> JStr(<<"undefined">>)
      [] v.t = "null" -> JStr(<<"null">>)
      [] v.t = "boolean" -> JStr(IF v.b THEN <<"true">> ELSE <<"false">>)
      [] v.t = "number" ->
            IF v.d = 0 THEN JStr(IF v.n = 0 THEN <<"NaN">> ELSE <<"Infinity">>)
            ELSE IF v.n % v.d = 0 /\ v.n >= 0 THEN JStr(IntToStr(v.n \div v.d))
            ELSE JStr(<<"number">>)
      [] v.t = "array" -> JStr(<<"array">>)
      [] OTHER -> JStr(<<"[object Object]">>)

\* the time stamps new Date(string) can parse
ParseableDates == {<<"2025-01-01T00:00:00Z">>}

\* new Date(raw), null when getTime() is NaN
ParseDate(raw) ==
    CASE raw.t = "string" ->
            IF raw.s \in ParseableDates THEN [t |-> "date", iso |-> raw.s]
            ELSE JNull
      [] raw.t = "number" ->
            IF raw.d # 0 THEN [t |-> "date", iso |-> StringOf(raw).s] ELSE JNull
      [] OTHER -> JNull

----------------------------------------------------------------------------
(* Wire-shape normalizers *)

normalizeNamespaceInfo(data) ==
    IF Nullish(data)
    THEN Fail(RuntimeError("TypeError", JStr(<<"Cannot read properties">>)))
    ELSE LET ns == ensureNonEmptyString(
                      Coalesce(Get(data, "namespace"), Get(data, "ns")),
                      "namespace")
         IN  IF ~ns.ok THEN ns
             ELSE Ok(JObj([
                namespace |-> ns.value,
                approxCount |-> NumberOf(Coalesce(Get(data, "approxCount"),
                                 Coalesce(Get(data, "approx_count"),
                                 Coalesce(Get(data, "count"), JNum(0))))),
                dimensions |-> NumberOf(Coalesce(Get(data, "dimensions"),
                                 Coalesce(Get(data, "dims"),
                                 Coalesce(Get(data, "dimension"), JNum(0)))))]))

normalizeIngestStatus(data) ==
    IF Nullish(data)
    THEN Fail(RuntimeError("TypeError", JStr(<<"Cannot read properties">>)))
    ELSE LET lastRunRaw == Coalesce(Get(data, "lastRun"),
                              Coalesce(Get(data, "last_run"), JNull))
         IN  Ok(JObj([
                lastRun |-> IF Nullish(lastRunRaw) THEN JNull
                            ELSE ParseDate(lastRunRaw),
                walFiles |-> NumberOf(Coalesce(Get(data, "walFiles"),
                                 Coalesce(Get(data, "wal_files"), JNum(0)))),
                walEntries |-> NumberOf(Coalesce(Get(data, "walEntries"),
                                 Coalesce(Get(data, "wal_entries"), JNum(0)))),
                segments |-> NumberOf(Coalesce(Get(data, "segments"), JNum(0))),
                totalVecs |-> NumberOf(Coalesce(Get(data, "totalVecs"),
                                 Coalesce(Get(data, "total_vecs"), JNum(0)))),
                dimensions |-> NumberOf(Coalesce(Get(data, "dimensions"),
                                 Coalesce(Get(data, "dims"), JNum(0))))]))

\* one element of the list given to normalizeVectorResults
normalizeVectorResult(item) ==
    JObj([id |-> StringOf(Get(item, "id")),
          dist |-> NumberOf(Coalesce(Get(item, "dist"),
                                     Get(item, "distance"))),
          vector |-> Get(item, "vector"),
          attributes |-> Get(item, "attributes")])

normalizeVectorResults(data) ==
    IF IsArray(data)
    THEN IF \E k \in 1 .. Len(data.items) : Nullish(data.items[k])
         THEN Fail(RuntimeError("TypeError", JStr(<<"Cannot read properties">>)))
         ELSE Ok(JArr([k \in 1 .. Len(data.items) |->
                          normalizeVectorResult(data.items[k])]))
    ELSE Ok(JArr(<<>>))

\* data.map((name) => String(name))
MapToString(list) == JArr([k \in 1 .. Len(list.items) |-> StringOf(list.items[k])])

----------------------------------------------------------------------------
(* The facade operations: what each does before and after its request *)

\* JSON.stringify followed by the backend's parse: properties whose value
\* is undefined are dropped, a number that is not finite becomes null
RECURSIVE toJsonBody(_)
toJsonBody(v) ==
    CASE v.t = "object" ->
            JObj([k \in {j \in DOMAIN v.fields : v.fields[j].t # "undefined"}
                     |-> toJsonBody(v.fields[k])])
      [] v.t = "array" ->
            JArr([k \in 1 .. Len(v.items) |->
                     IF v.items[k].t = "undefined" THEN JNull
                     ELSE toJsonBody(v.items[k])])
      [] v.t = "number" -> IF v.d = 0 THEN JNull ELSE v
      [] OTHER -> v

\* the arguments of this.request
Request(baseUrl, path, method, body) ==
    [baseUrl |-> baseUrl, path |-> path, method |-> method, body |-> body]

\* a property set only under a condition
FieldIf(cond, key, v) == IF cond THEN key :> v ELSE <<>>

upsertBody(args) ==
    JObj([vectors |-> JArr([k \in 1 .. Len(args.vectors.items) |->
                JObj([id |-> Get(args.vectors.items[k], "id"),
                      vector |-> Get(args.vectors.items[k], "vector"),
                      attributes |-> Get(args.vectors.items[k], "attributes")])])]
         @@ FieldIf(Truthy(args.distanceMetric), "distance_metric",
                    args.distanceMetric))

queryBody(args) ==
    JObj([vector |-> args.vector,
          top_k |-> Coalesce(args.topK, JNum(10)),
          include_vectors |-> Coalesce(args.includeVectors, JBool(FALSE))]
         @@ FieldIf(Truthy(args.distanceMetric), "distance_metric",
                    args.distanceMetric)
         @@ FieldIf(Truthy(args.filters), "filters", args.filters)
         @@ FieldIf(args.efSearch.t # "undefined", "ef_search", args.efSearch)
         @@ FieldIf(args.nprobe.t # "undefined", "nprobe", args.nprobe))

\* the checks of query, in the order of the code
queryChecks(this, args) ==
    LET v == validateVector(args.vector, Undefined)
        ns == normalizeNamespace(Coalesce(args.namespace, this.namespace))
        topK == IF args.topK.t # "undefined"
                THEN ensurePositiveInt(args.topK, "topK") ELSE Ok(JUndefined)
        efSearch == IF args.efSearch.t # "undefined"
                    THEN ensurePositiveInt(args.efSearch, "efSearch")
                    ELSE Ok(JUndefined)
        nprobe == IF args.nprobe.t # "undefined"
                  THEN ensurePositiveInt(args.nprobe, "nprobe")
                  ELSE Ok(JUndefined)
    IN  IF ~v.ok THEN v
        ELSE IF ~ns.ok THEN ns
        ELSE IF ~topK.ok THEN topK
        ELSE IF ~efSearch.ok THEN efSearch
        ELSE IF ~nprobe.ok THEN nprobe
        ELSE ns

\* the part of an operation before this.request: the checks, the resolved
\* namespace and the request, or the error thrown
Prepare(this, args) ==
    CASE args.op = "health" ->
            Ok(Request(IF args.service = "ingest" THEN this.ingestUrl
                       ELSE this.queryUrl,
                       <<"/health">>, "GET", JUndefined))
      [] args.op = "upsert" ->
            LET docs == validateDocuments(args.vectors)
                ns == normalizeNamespace(Coalesce(args.namespace, this.namespace))
            IN  IF ~docs.ok THEN docs
                ELSE IF ~ns.ok THEN ns
                ELSE Ok(Request(this.ingestUrl,
                                <<"/v1/vectors/">> \o ns.value.s, "POST",
                                toJsonBody(upsertBody(args))))
      [] args.op = "query" ->
            LET ns == queryChecks(this, args)
            IN  IF ~ns.ok THEN ns
                ELSE Ok(Request(this.queryUrl,
                                <<"/v1/vectors/">> \o ns.value.s, "POST",
                                toJsonBody(queryBody(args))))
      [] args.op = "delete" ->
            LET ids == validateIds(args.ids)
                ns == normalizeNamespace(Coalesce(args.namespace, this.namespace))
            IN  IF ~ids.ok THEN ids
                ELSE IF ~ns.ok THEN ns
                ELSE Ok(Request(this.ingestUrl,
                                <<"/v1/vectors/">> \o ns.value.s, "DELETE",
                                toJsonBody(JObj([ids |-> args.ids]))))
      [] args.op = "getNamespace" ->
            LET ns == normalizeNamespace(Coalesce(args.namespace, this.namespace))
            IN  IF ~ns.ok THEN ns
                ELSE Ok(Request(this.queryUrl,
                                <<"/v1/namespaces/">> \o ns.value.s, "GET",
                                JUndefined))
      [] args.op = "getNamespaceStatus" ->
            \* the class has no method getNamespaceStatus: the call throws
            Fail(RuntimeError("TypeError",
                    JStr(<<"client.getNamespaceStatus is not a function">>)))
      [] args.op = "listNamespaces" ->
            Ok(Request(this.queryUrl, <<"/v1/namespaces">>, "GET", JUndefined))
      [] args.op = "status" ->
            Ok(Request(this.ingestUrl, <<"/status">>, "GET", JUndefined))
      [] args.op = "compact" ->
            \* compact() has no parameter: an argument passed to it is ignored
            Ok(Request(this.ingestUrl, <<"/compact">>, "POST", JUndefined))

\* variant of queryResult that hands out the list of a record as it came
queryResultRawRecord(data) ==
    IF IsArray(data) THEN normalizeVectorResults(data)
    ELSE IF Truthy(data) /\ IsArray(Get(data, "results"))
    THEN Ok(Get(data, "results"))
    ELSE Fail(TidepoolError(JStr(<<"Unexpected query response shape">>),
                            Undefined, JUndefined))

queryResult(data) ==
    IF IsArray(data) THEN normalizeVectorResults(data)
    ELSE IF Truthy(data) /\ IsArray(Get(data, "results"))
    THEN normalizeVectorResults(Get(data, "results"))
    ELSE Fail(TidepoolError(JStr(<<"Unexpected query response shape">>),
                            Undefined, JUndefined))

listNamespacesResult(data) ==
    IF IsArray(data) THEN Ok(MapToString(data))
    ELSE IF Truthy(data) /\ IsArray(Get(data, "namespaces"))
    THEN Ok(MapToString(Get(data, "namespaces")))
    ELSE IF Truthy(data) /\ data.t = "object"
            /\ IsArray(Get(data, "namespace_list"))
    THEN Ok(MapToString(Get(data, "namespace_list")))
    ELSE Fail(TidepoolError(JStr(<<"Unexpected namespaces response shape">>),
                            Undefined, JUndefined))

\* the part of an operation after this.request returned data
Finish(args, data) ==
    CASE args.op = "health" -> Ok(data)
      [] args.op \in {"upsert", "delete", "compact"} -> Ok(JUndefined)
      [] args.op = "query" -> queryResult(data)
      [] args.op = "getNamespace" -> normalizeNamespaceInfo(data)
      [] args.op = "listNamespaces" -> listNamespacesResult(data)
      [] args.op = "status" -> normalizeIngestStatus(data)

\* an operation ends: the request's error as it is, or the result of Finish
Outcome(args, requested) ==
    IF ~requested.ok THEN Throw(requested.error)
    ELSE LET f == Finish(args, requested.value)
         IN  IF f.ok THEN Return(f.value) ELSE Throw(f.error)

----------------------------------------------------------------------------
(* this.request: the transport call *)

Procs == {1, 2}

\* variant with one AbortController kept for all calls
SharedController(p) == 1

\* const controller = new AbortController(): one per call of request
ControllerOf(p) == p

\* clearTimeout(timeoutId): a pending timer is dropped, a timer that fired
\* stays fired
ClearTimeout(t) == IF t = "pending" THEN "cleared" ELSE t

\* response.ok
IsOk(resp) == resp.status >= 200 /\ resp.status <= 299

\* response.statusText
StatusText(status) ==
    CASE status = 200 -> JStr(<<"OK">>)
      [] status = 204 -> JStr(<<"No Content">>)
      [] status = 400 -> JStr(<<"Bad Request">>)
      [] status = 404 -> JStr(<<"Not Found">>)
      [] status = 413 -> JStr(<<"Payload Too Large">>)
      [] status = 500 -> JStr(<<"Internal Server Error">>)
      [] status = 503 -> JStr(<<"Service Unavailable">>)
      [] OTHER -> JStr(<<>>)

\* variant of the catch clause that wraps every error, the client's own
\* too, into a generic TidepoolError
requestCatchWrapsAll(c, error) ==
    IF error.name = "AbortError"
    THEN TidepoolError(JStr(<<"Request timed out after ">>
                            \o StringOf(c.timeout).s \o <<"ms">>),
                       Some(408), JUndefined)
    ELSE TidepoolError(Coalesce(error.message, JStr(<<"Request failed">>)),
                       Undefined, JUndefined)

\* the catch clause of request
requestCatch(c, error) ==
    IF IsTidepoolError(error) THEN error
    ELSE IF error.name = "AbortError"
    THEN TidepoolError(JStr(<<"Request timed out after ">>
                            \o StringOf(c.timeout).s \o <<"ms">>),
                       Some(408), JUndefined)
    ELSE TidepoolError(Coalesce(error.message, JStr(<<"Request failed">>)),
                       Undefined, JUndefined)

\* how an awaited read of the body ends: "complete", or the rejection
\* "streamError" (the connection broke) or "abort" (the signal aborted)
ReadError(how) ==
    IF how = "abort" THEN RuntimeError("AbortError", JStr(<<"This operation was aborted">>))
    ELSE RuntimeError("TypeError", JStr(<<"terminated">>))

\* response.json(): the decoded body, or a rejection
readJson(resp, how) ==
    IF how = "complete" THEN resp.body.parse ELSE Fail(ReadError(how))
\* response.text()
readText(resp, how) ==
    IF how = "complete" THEN Ok(resp.body.text) ELSE Fail(ReadError(how))
\* promise.catch(() => dflt)
CatchDefault(read, dflt) == IF read.ok THEN read.value ELSE dflt

\* variant of the branch that throws the extracted message as it is, without
\* the status text in the place of an empty one
errorOfResponseNoFallback(resp, how) ==
    LET body == IF resp.json THEN CatchDefault(readJson(resp, how), JUndefined)
                ELSE JUndefined
        text == IF ~resp.json THEN CatchDefault(readText(resp, how), JStr(<<>>))
                ELSE JStr(<<>>)
        message == Coalesce(Get(body, "error"),
                   Coalesce(Get(body, "message"),
                   Coalesce(text, StatusText(resp.status))))
    IN  mapError(resp.status, message, Coalesce(body, text))

\* the branch if (!response.ok): the error thrown
errorOfResponse(resp, how) ==
    LET body == IF resp.json THEN CatchDefault(readJson(resp, how), JUndefined)
                ELSE JUndefined
        text == IF ~resp.json THEN CatchDefault(readText(resp, how), JStr(<<>>))
                ELSE JStr(<<>>)
        message == Coalesce(Get(body, "error"),
                   Coalesce(Get(body, "message"),
                   Coalesce(text, StatusText(resp.status))))
    IN  mapError(resp.status,
                 IF Truthy(message) THEN message ELSE StatusText(resp.status),
                 Coalesce(body, text))

\* the body of try after the body was read: the value returned or the
\* error thrown inside try
afterBody(resp, how) ==
    IF ~IsOk(resp) THEN Fail(errorOfResponse(resp, how))
    ELSE IF ~resp.json THEN readText(resp, how)
    ELSE Ok(CatchDefault(readJson(resp, how), JUndefined))

\* try { ... } catch (error) { ... }
tryCatch(c, tried) ==
    IF tried.ok THEN tried ELSE Fail(requestCatch(c, tried.error))

\* variant in which an operation keeps the namespace it was called with
FieldsAfterKeepingOverride(this, args) ==
    IF "namespace" \in DOMAIN args /\ args.namespace.t = "string"
    THEN [this EXCEPT !.namespace = args.namespace]
    ELSE this

\* the fields of the client after an operation was called with args: no
\* operation assigns this.queryUrl, this.ingestUrl, this.timeout or
\* this.namespace
FieldsAfter(this, args) == this

\* the operation of caller p ends with the outcome of its request
Complete(p, c, requested, timerAfter) ==
    /\ result' = [result EXCEPT ![p] = Outcome(c, requested)]
    /\ timer' = [timer EXCEPT ![p] = timerAfter]
    /\ pc' = [pc EXCEPT ![p] = "done"]

\* caller p calls an operation: its checks, then request up to await fetch
Invoke(p, c) ==
    LET prep == Prepare(client, c)
        req == prep.value
        url == resolveUrl(req.baseUrl, req.path)
    IN
    /\ pc[p] = "idle"
    /\ call' = [call EXCEPT ![p] = c]
    /\ client' = FieldsAfter(client, c)
    /\ UNCHANGED <<aborted, response, bodyEnd>>
    /\ IF ~prep.ok
       THEN /\ Complete(p, c, prep, timer[p])
            /\ UNCHANGED <<fetchCalls, sent>>
       ELSE IF ~env.fetch
       THEN /\ Complete(p, c, Fail(TidepoolError(
                   JStr(<<"Global fetch is not available in this environment">>),
                   Undefined, JUndefined)), timer[p])
            /\ UNCHANGED <<fetchCalls, sent>>
       ELSE IF ~env.Headers
       THEN \* new Headers(...) throws after setTimeout and outside try
            /\ Complete(p, c, Fail(RuntimeError("ReferenceError",
                   JStr(<<"Headers is not defined">>))), "pending")
            /\ UNCHANGED <<fetchCalls, sent>>
       ELSE IF ~url.ok
       THEN /\ Complete(p, c, tryCatch(client, url), ClearTimeout("pending"))
            /\ UNCHANGED <<fetchCalls, sent>>
       ELSE /\ fetchCalls' = [fetchCalls EXCEPT ![p] = @ + 1]
            /\ sent' = [sent EXCEPT ![p] = Some(
                  [url |-> url.value, method |-> req.method, body |-> req.body,
                   controller |-> ControllerOf(p),
                   headers |-> [Accept |-> "application/json"]
                      @@ FieldIf(req.body.t # "undefined", "Content-Type",
                                 "application/json")])]
            /\ timer' = [timer EXCEPT ![p] = "pending"]
            /\ pc' = [pc EXCEPT ![p] = "awaitFetch"]
            /\ UNCHANGED result

\* setTimeout(() => controller.abort(), this.timeout) fires
TimerFires(p) ==
    /\ timer[p] = "pending"
    /\ timer' = [timer EXCEPT ![p] = IF pc[p] = "done" THEN "late" ELSE "fired"]
    /\ aborted' = [aborted EXCEPT ![ControllerOf(p)] = TRUE]
    /\ UNCHANGED <<client, pc, call, fetchCalls, sent, response, bodyEnd, result>>

\* fetch resolves with a response: 204 returns at once, every other
\* response goes on to read its body
FetchResolves(p, resp) ==
    /\ pc[p] = "awaitFetch"
    /\ ~aborted[sent[p][1].controller]
    /\ response' = [response EXCEPT ![p] = Some(resp)]
    /\ IF IsOk(resp) /\ resp.status = 204
       THEN Complete(p, call[p], Ok(JUndefined), ClearTimeout(timer[p]))
       ELSE /\ pc' = [pc EXCEPT ![p] = "awaitBody"]
            /\ UNCHANGED <<timer, result>>
    /\ UNCHANGED <<client, call, aborted, fetchCalls, sent, bodyEnd>>

\* fetch rejects because the network failed
FetchRejects(p) ==
    /\ pc[p] = "awaitFetch"
    /\ ~aborted[sent[p][1].controller]
    /\ Complete(p, call[p], tryCatch(client, Fail(RuntimeError("TypeError",
                      JStr(<<"fetch failed">>)))), ClearTimeout(timer[p]))
    /\ UNCHANGED <<client, call, aborted, fetchCalls, sent, response, bodyEnd>>

\* fetch rejects because its signal was aborted
FetchAborted(p) ==
    /\ pc[p] = "awaitFetch"
    /\ aborted[sent[p][1].controller]
    /\ Complete(p, call[p], tryCatch(client, Fail(ReadError("abort"))),
                ClearTimeout(timer[p]))
    /\ UNCHANGED <<client, call, aborted, fetchCalls, sent, response, bodyEnd>>

\* the read of the body ends, completely or (how = "streamError") with a
\* broken connection; once the signal is aborted it ends with the abort
BodyRead(p, how) ==
    /\ pc[p] = "awaitBody"
    /\ LET ends == IF aborted[sent[p][1].controller] THEN "abort" ELSE how
       IN  /\ Complete(p, call[p],
                       tryCatch(client, afterBody(response[p][1], ends)),
                       ClearTimeout(timer[p]))
           /\ bodyEnd' = [bodyEnd EXCEPT ![p] = ends]
    /\ UNCHANGED <<client, call, aborted, fetchCalls, sent, response>>

----------------------------------------------------------------------------
(* Inputs *)

\* the configurations a client is constructed from
Configs ==
    [queryUrl : {Undefined, Some(JStr(<<"not a url">>)), Some(JStr(<<" ">>))},
     ingestUrl : {Undefined},
     timeout : {Undefined, Some(JNum(0))},
     namespace : {Undefined, Some(JStr(<<" ", "products">>)), Some(JStr(<<>>))}]

\* the clients whose construction succeeds
Clients == {NewTidepoolClient(c).value :
               c \in {cfg \in Configs : NewTidepoolClient(cfg).ok}}

\* new TidepoolClient(): every field omitted
DefaultConfig ==
    [queryUrl |-> Undefined, ingestUrl |-> Undefined,
     timeout |-> Undefined, namespace |-> Undefined]

DefaultClient == NewTidepoolClient(DefaultConfig).value

\* the arguments the constructor is tried with
ConstructorArgs ==
    [queryUrl : {Undefined, Some(JStr(<<>>)), Some(JStr(<<" ">>)),
                 Some(JStr(<<"not a url">>)),
                 Some(JStr(<<"http://localhost:8080", " ">>))},
     ingestUrl : {Undefined, Some(JStr(<<>>)), Some(JStr(<<" ", " ">>)),
                  Some(JStr(<<"http://localhost:8081">>))},
     timeout : {Undefined, Some(JNum(0)), Some(JNum(-5)), Some(JNaN),
                Some(JInfinity), Some(JFrac(1, 2)), Some(JNum(5000))},
     namespace : {Undefined, Some(JStr(<<>>)), Some(JStr(<<" ">>)),
                  Some(JStr(<<" ", "products", " ">>))}]

\* the runtime: Node 18 and browsers have both globals; with a fetch
\* polyfill assigned to globalThis.fetch there is fetch but no Headers
FullEnv == [fetch |-> TRUE, Headers |-> TRUE]
Envs == {FullEnv, [fetch |-> FALSE, Headers |-> FALSE],
         [fetch |-> TRUE, Headers |-> FALSE]}

NamespaceArgs == {JUndefined, JStr(<<>>), JStr(<<" ">>), JStr(<<"tenant_a">>),
                  JStr(<<" ", "tenant_b", " ">>)}

GoodVector == JArr(<<JNum(1), JNum(2)>>)
VectorArgs == {GoodVector, JStr(<<"bad">>), JArr(<<>>), JArr(<<JInfinity>>),
               JArr(<<JNum(1), JNaN>>), JArr(<<JStr(<<"1">>)>>)}

Doc(id, vector) == JObj([id |-> id, vector |-> vector])
GoodDocs == JArr(<<Doc(JStr(<<"doc-1">>), GoodVector),
                   Doc(JStr(<<"doc-2">>), GoodVector)>>)
DocsArgs ==
    {GoodDocs,
     JUndefined,
     JArr(<<>>),
     JArr(<<Doc(JStr(<<"doc-1">>), GoodVector), Doc(JStr(<<"doc-2">>), JArr(<<JNum(1)>>))>>),
     JArr(<<Doc(JStr(<<"doc-1">>), GoodVector), Doc(JStr(<<" ">>), GoodVector)>>),
     JArr(<<Doc(JStr(<<>>), GoodVector)>>),
     JArr(<<Doc(JStr(<<"doc-1">>), JArr(<<>>))>>),
     JArr(<<Doc(JStr(<<"doc-1">>), GoodVector), Doc(JStr(<<"doc-2">>), JArr(<<JNum(1), JNaN>>))>>),
     JArr(<<Doc(JStr(<<"doc-1">>), GoodVector), JNull>>)}

IdsArgs == {JArr(<<JStr(<<"doc-1">>)>>), JArr(<<>>), JNull,
            JArr(<<JStr(<<"doc-1">>), JStr(<<" ">>)>>),
            JArr(<<JStr(<<"doc-1">>), JNum(2)>>)}

TopKArgs == {JUndefined, JNum(5), JNum(0), JFrac(3, 2), JNaN}
EfSearchArgs == {JUndefined, JNum(10), JNum(-1)}
NprobeArgs == {JUndefined, JNum(4), JInfinity}
ModeArgs == {JUndefined, JStr(<<"bogus">>)}

QueryCall(vector, ns, topK, efSearch, nprobe, mode) ==
    [op |-> "query", vector |-> vector, namespace |-> ns, topK |-> topK,
     efSearch |-> efSearch, nprobe |-> nprobe, mode |-> mode,
     includeVectors |-> JUndefined, distanceMetric |-> JUndefined,
     filters |-> JUndefined, text |-> JUndefined, alpha |-> JUndefined,
     fusion |-> JUndefined, rrfK |-> JUndefined]

\* query(vector) without options
BareQuery(vector) ==
    QueryCall(vector, JUndefined, JUndefined, JUndefined, JUndefined, JUndefined)

\* query(request): one request object in the place of the vector
TextOnlyRequest ==
    JObj([text |-> JStr(<<"machine learning">>), mode |-> JStr(<<"text">>),
          namespace |-> JStr(<<"documents">>)])
RequestObjectCalls ==
    {BareQuery(TextOnlyRequest),
     BareQuery(JObj([text |-> JStr(<<"machine learning">>)])),
     BareQuery(JObj([vector |-> GoodVector, topK |-> JNum(5)]))}

\* query(vector, options) with the options of the hybrid search
FullOptionsQuery ==
    [BareQuery(GoodVector) EXCEPT
        !.text = JStr(<<" ", "hello", " ">>), !.mode = JStr(<<"hybrid">>),
        !.topK = JNum(5), !.includeVectors = JBool(FALSE),
        !.distanceMetric = JStr(<<"dot_product">>),
        !.filters = JObj([tag |-> JStr(<<"a">>)]),
        !.efSearch = JNum(10), !.nprobe = JNum(4), !.alpha = JNum(2),
        !.fusion = JStr(<<"rrf">>), !.rrfK = JNum(8)]
HybridCalls ==
    {FullOptionsQuery,
     [BareQuery(GoodVector) EXCEPT !.text = JStr(<<"hello">>)],
     [BareQuery(GoodVector) EXCEPT !.mode = JStr(<<"text">>)],
     [BareQuery(GoodVector) EXCEPT !.text = JStr(<<" ">>),
                                   !.mode = JStr(<<"hybrid">>)],
     [BareQuery(GoodVector) EXCEPT !.alpha = JNum(-1)]}

\* every call a caller can make
Calls ==
    {[op |-> "health", service |-> sv] : sv \in {"query", "ingest"}}
    \cup {[op |-> "upsert", vectors |-> d, namespace |-> ns,
           distanceMetric |-> JUndefined] : d \in DocsArgs, ns \in NamespaceArgs}
    \cup {QueryCall(v, ns, k, ef, np, m) :
             v \in VectorArgs, ns \in NamespaceArgs, k \in TopKArgs,
             ef \in EfSearchArgs, np \in NprobeArgs, m \in ModeArgs}
    \cup RequestObjectCalls
    \cup HybridCalls
    \cup {[op |-> "delete", ids |-> ids, namespace |-> ns] :
             ids \in IdsArgs, ns \in NamespaceArgs}
    \cup {[op |-> "getNamespace", namespace |-> ns] : ns \in NamespaceArgs}
    \cup {[op |-> o] : o \in {"listNamespaces", "status"}}
    \cup {[op |-> "compact", namespace |-> ns] :
             ns \in {JUndefined, JStr(<<"tenant_a">>)}}

\* the calls of the concurrent callers: a few operations, each with a
\* namespace of its own choice
ConcurrentCalls ==
    {QueryCall(GoodVector, ns, JUndefined, JUndefined, JUndefined, JUndefined) :
        ns \in {JUndefined, JStr(<<"tenant_a">>), JStr(<<"tenant_b">>)}}
    \cup {[op |-> "getNamespace", namespace |-> ns] :
             ns \in {JStr(<<"tenant_a">>), JStr(<<"tenant_b">>)}}
    \cup {[op |-> "upsert", vectors |-> GoodDocs, namespace |-> ns,
           distanceMetric |-> JUndefined] : ns \in {JStr(<<"tenant_a">>)}}

\* bodies a backend sends: the decoded JSON (or the decode error) and the text
JsonBody(v, text) == [parse |-> Ok(v), text |-> JStr(text)]
TextBody(text) ==
    [parse |-> Fail(RuntimeError("SyntaxError", JStr(<<"Unexpected token">>))),
     text |-> JStr(text)]
Bodies ==
    {JsonBody(JObj([error |-> JStr(<<"overloaded">>)]), <<"{error}">>),
     JsonBody(JObj([message |-> JStr(<<"bad input">>)]), <<"{message}">>),
     JsonBody(JArr(<<JObj([id |-> JStr(<<"a">>), dist |-> JNum(1)])>>), <<"[results]">>),
     JsonBody(JObj([namespace |-> JStr(<<"default">>), approx_count |-> JNum(5),
                    last_run |-> JStr(<<"bad-date">>)]), <<"{info}">>),
     TextBody(<<"oops">>),
     TextBody(<<>>)}

Statuses == {200, 204, 400, 404, 413, 500, 503}

Responses == [status : Statuses, json : BOOLEAN, body : Bodies]

\* the answers given to the concurrent callers
ConcurrentResponses ==
    [status : {200, 503}, json : {TRUE},
     body : {JsonBody(JArr(<<JObj([id |-> JStr(<<"a">>), dist |-> JNum(1)])>>),
                      <<"[results]">>),
             JsonBody(JObj([namespace |-> JStr(<<"default">>)]), <<"{info}">>)}]

\* result lists a backend answers a query with
ScoredList == <<JObj([id |-> JStr(<<"doc-1">>), score |-> JFrac(92, 100)])>>
ResultLists ==
    {ScoredList,
     <<JObj([id |-> JStr(<<"a">>), dist |-> JNum(1)]),
       JObj([id |-> JStr(<<"b">>), distance |-> JNum(2)]),
       JObj([id |-> JStr(<<"c">>)])>>,
     <<JObj([id |-> JStr(<<"a">>), score |-> JFrac(1, 10), dist |-> JNum(5),
             distance |-> JNum(7)])>>}

\* the two shapes of a query response: the bare list and the record
BareListBodies == {JsonBody(JArr(L), <<"[results]">>) : L \in ResultLists}
RecordBodies ==
    {JsonBody(JObj([namespace |-> JStr(<<n>>), results |-> JArr(L)]),
              <<"{namespace,results}">>) :
        n \in {"default", "tenant_a"}, L \in ResultLists}

\* further bodies of a query response
OtherQueryBodies ==
    {JsonBody(JObj([ns |-> JStr(<<"other">>), results |-> JArr(ScoredList)]),
              <<"{ns,results}">>),
     JsonBody(JObj([namespace |-> JStr(<<>>), results |-> JArr(ScoredList)]),
              <<"{namespace,results}">>),
     JsonBody(JObj([vectors |-> JArr(ScoredList)]), <<"{vectors}">>),
     JsonBody(JObj([results |-> JStr(<<"nope">>)]), <<"{results}">>)}

\* bodies of a status response
StatusBodies ==
    {JsonBody(JObj([last_run |-> JStr(<<"bad-date">>), wal_files |-> JNum(1),
                    wal_entries |-> JNum(2), segments |-> JNum(3),
                    total_vecs |-> JNum(4), dimensions |-> JNum(5)]),
              <<"{status}">>),
     JsonBody(JObj([lastRun |-> JStr(<<"2025-01-01T00:00:00Z">>),
                    walFiles |-> JNum(7), wal_files |-> JNum(1),
                    walEntries |-> JNum(2), total_vecs |-> JNum(4)]),
              <<"{status}">>),
     JsonBody(JObj([last_run |-> JNull, segments |-> JNum(3)]), <<"{status}">>),
     JsonBody(JObj(<<>>), <<"{}">>)}

\* bodies of a namespace list response
InfoRecord ==
    JObj([namespace |-> JStr(<<"default">>), approx_count |-> JNum(10),
          dimensions |-> JNum(3), pending_compaction |-> JBool(TRUE)])
NamespaceListBodies ==
    {JsonBody(JArr(<<JStr(<<"a">>), JStr(<<"b">>)>>), <<"[names]">>),
     JsonBody(JArr(<<InfoRecord, JStr(<<"b">>)>>), <<"[infos]">>),
     JsonBody(JObj([namespaces |-> JArr(<<InfoRecord>>)]), <<"{namespaces}">>),
     JsonBody(JObj([namespace_list |-> JArr(<<JStr(<<"a">>)>>)]),
              <<"{namespace_list}">>),
     JsonBody(JObj([namespaceList |-> JArr(<<JStr(<<"a">>)>>)]),
              <<"{namespaceList}">>)}

\* the calls and the answers of the caller whose results are normalized
ShapeCalls ==
    {BareQuery(GoodVector),
     [op |-> "listNamespaces"],
     [BareQuery(GoodVector) EXCEPT !.namespace = JStr(<<"tenant_a">>)],
     [op |-> "status"],
     [op |-> "getNamespaceStatus", namespace |-> JStr(<<"tenant_a">>)]}
ShapeResponses ==
    [status : {200}, json : {TRUE},
     body : BareListBodies \cup RecordBodies \cup OtherQueryBodies
            \cup StatusBodies \cup NamespaceListBodies]

\* the calls and the answers of two callers that query the same lists
PairCalls ==
    {BareQuery(GoodVector),
     [BareQuery(GoodVector) EXCEPT !.namespace = JStr(<<"tenant_a">>)]}
PairResponses ==
    [status : {200}, json : {TRUE}, body : BareListBodies \cup RecordBodies]

\* the values handed to the exported validateVector: every sequence of
\* at most MaxVectorLen elements, and values that are no sequence
VectorElements == {JNum(1), JFrac(1, 2), JNaN, JInfinity, JStr(<<"1">>)}
ValidateVectorArgs ==
    {JArr(items) : items \in UNION {[1 .. n -> VectorElements] :
                                       n \in 0 .. MaxVectorLen}}
    \cup {JStr(<<"bad">>), JNull, JUndefined, JObj([length |-> JNum(2)])}
ExpectedDimsArgs == {Undefined} \cup {Some(n) : n \in 0 .. MaxVectorLen + 1}

----------------------------------------------------------------------------
(* Specifications *)

InitRetryVars ==
    /\ rpc = [r \in Runners |-> "idle"]
    /\ maxRetries = [r \in Runners |-> 0]
    /\ baseDelay = [r \in Runners |-> 0]
    /\ attempt = [r \in Runners |-> 0]
    /\ fnCalls = [r \in Runners |-> 0]
    /\ fnLog = [r \in Runners |-> <<>>]
    /\ sleeps = [r \in Runners |-> <<>>]
    /\ rres = [r \in Runners |-> Pending]

InitCallVars ==
    /\ pc = [p \in Procs |-> "idle"]
    /\ call = [p \in Procs |-> [op |-> "none"]]
    /\ timer = [p \in Procs |-> "none"]
    /\ aborted = [p \in Procs |-> FALSE]
    /\ fetchCalls = [p \in Procs |-> 0]
    /\ sent = [p \in Procs |-> Undefined]
    /\ response = [p \in Procs |-> Undefined]
    /\ bodyEnd = [p \in Procs |-> "none"]
    /\ result = [p \in Procs |-> Pending]

\* after construction of a client, in some runtime
Init ==
    /\ InitRetryVars
    /\ InitCallVars
    /\ config \in {cfg \in Configs : NewTidepoolClient(cfg).ok}
    /\ client = NewTidepoolClient(config).value
    /\ constructed = Return(client)
    /\ env \in Envs

\* after construction of the default client, in a full runtime
InitDefault ==
    /\ InitRetryVars
    /\ InitCallVars
    /\ config = DefaultConfig
    /\ constructed = Return(DefaultClient)
    /\ client = DefaultClient
    /\ env = FullEnv

NextRetry ==
    \/ \E r \in Runners, mr \in MaxRetriesArgs, bd \in BaseDelayArgs :
          withRetry(r, mr, bd) /\ UNCHANGED <<configVars, callVars>>
    \/ \E r \in Runners, v \in FnValues :
          FnReturns(r, v) /\ UNCHANGED <<configVars, callVars>>
    \/ \E r \in Runners, name \in ErrorNames :
          FnThrows(r, name) /\ UNCHANGED <<configVars, callVars>>
    \/ \E r \in Runners :
          Wake(r) /\ UNCHANGED <<configVars, callVars>>

\* the steps of caller p, whose calls come from the set cs and whose
\* backend answers come from the set rs
StepsOf(p, cs, rs) ==
    \/ \E c \in cs : Invoke(p, c)
    \/ TimerFires(p)
    \/ \E resp \in rs : FetchResolves(p, resp)
    \/ FetchRejects(p)
    \/ FetchAborted(p)
    \/ \E how \in {"complete", "streamError"} : BodyRead(p, how)

\* one caller, every call
Next == StepsOf(1, Calls, Responses) /\ UNCHANGED <<config, constructed, env, retryVars>>

\* two callers at the same time
NextConc ==
    \E p \in Procs :
        StepsOf(p, ConcurrentCalls, ConcurrentResponses)
        /\ UNCHANGED <<config, constructed, env, retryVars>>

\* before construction: the constructor is about to be called with config
InitNew ==
    /\ InitRetryVars
    /\ InitCallVars
    /\ config \in ConstructorArgs
    /\ constructed = Pending
    /\ client = JUndefined
    /\ env = FullEnv

\* new TidepoolClient(config) runs
Construct ==
    LET made == NewTidepoolClient(config) IN
    /\ constructed = Pending
    /\ constructed' = IF made.ok THEN Return(made.value) ELSE Throw(made.error)
    /\ client' = IF made.ok THEN made.value ELSE client
    /\ UNCHANGED <<config, env, retryVars, callVars>>

NextNew == Construct

\* one caller whose answers have every response shape
NextShape ==
    StepsOf(1, ShapeCalls, ShapeResponses)
    /\ UNCHANGED <<config, constructed, env, retryVars>>

\* two callers that query
NextPair ==
    \E p \in Procs :
        StepsOf(p, PairCalls, PairResponses)
        /\ UNCHANGED <<config, constructed, env, retryVars>>

\* caller p calls the exported validateVector(vector, expectedDims)
CallValidateVector(p, vector, expectedDims) ==
    LET checked == validateVector(vector, expectedDims) IN
    /\ pc[p] = "idle"
    /\ call' = [call EXCEPT ![p] = [op |-> "validateVector", vector |-> vector,
                                    expectedDims |-> expectedDims]]
    /\ result' = [result EXCEPT ![p] = IF checked.ok THEN Return(JUndefined)
                                       ELSE Throw(checked.error)]
    /\ pc' = [pc EXCEPT ![p] = "done"]
    /\ UNCHANGED <<timer, aborted, fetchCalls, sent, response, bodyEnd>>

NextValidate ==
    \E v \in ValidateVectorArgs, d \in ExpectedDimsArgs :
        CallValidateVector(1, v, d) /\ UNCHANGED <<configVars, retryVars>>

\* the operation handed to withRetry settles, and a timer that was set
\* fires
RetryFairness ==
    \A r \in Runners :
        /\ WF_vars((\/ \E v \in FnValues : FnReturns(r, v)
                    \/ \E name \in ErrorNames : FnThrows(r, name))
                   /\ UNCHANGED <<configVars, callVars>>)
        /\ WF_vars(Wake(r) /\ UNCHANGED <<configVars, callVars>>)

Spec == Init /\ [][Next]_vars
SpecValidate == InitDefault /\ [][NextValidate]_vars
SpecShape == InitDefault /\ [][NextShape]_vars
SpecPair == InitDefault /\ [][NextPair]_vars
SpecNew == InitNew /\ [][NextNew]_vars
SpecConc == InitDefault /\ [][NextConc]_vars
SpecRetry == InitDefault /\ [][NextRetry]_vars
SpecRetryFair == SpecRetry /\ RetryFairness

----------------------------------------------------------------------------
(* Properties of withRetry, checked under SpecRetry *)

\* entry i of the log of runner r is a failure with ServiceUnavailableError
FailedUnavailable(r, i) ==
    /\ fnLog[r][i].kind = "throw"
    /\ fnLog[r][i].error.name = "ServiceUnavailableError"

\* C1: when the first invocation of the operation fails with an error that
\* is not a ServiceUnavailableError and maxRetries >= 1, withRetry is done
\* after that one invocation, has thrown that same error and has not slept.
C1_OtherErrorsNotRetried ==
    \A r \in Runners :
        (/\ maxRetries[r] >= 1
         /\ Len(fnLog[r]) >= 1
         /\ fnLog[r][1].kind = "throw"
         /\ fnLog[r][1].error.name # "ServiceUnavailableError")
        => /\ rpc[r] = "done"
           /\ rres[r] = fnLog[r][1]
           /\ fnCalls[r] = 1
           /\ Len(fnLog[r]) = 1
           /\ sleeps[r] = <<>>

C1_Witness ==
    \E r \in Runners :
        /\ maxRetries[r] = 3
        /\ rpc[r] = "done"
        /\ rres[r].kind = "throw"
        /\ rres[r].error.name = "ValidationError"
        /\ fnCalls[r] = 1

\* C2 as stated: the operation is invoked at most maxRetries times, and a
\* run whose invocations all fail with ServiceUnavailableError rethrows
\* after the maxRetries-th invocation.
C2_AtMostMaxRetriesInvocations ==
    \A r \in Runners :
        (rpc[r] # "idle" /\ maxRetries[r] >= 1)
        => /\ fnCalls[r] <= maxRetries[r]
           /\ (/\ rpc[r] = "done"
               /\ \A i \in 1 .. Len(fnLog[r]) : FailedUnavailable(r, i))
              => fnCalls[r] = maxRetries[r]

\* C2 amended: the operation is invoked at most maxRetries + 1 times (never
\* when maxRetries is negative); a run whose maxRetries + 1 invocations all
\* failed with ServiceUnavailableError is done and has rethrown the last of
\* these errors, and no run gives up on ServiceUnavailableError earlier.
C2_AtMostMaxRetriesPlusOne ==
    \A r \in Runners :
        rpc[r] # "idle"
        => /\ fnCalls[r] <= (IF maxRetries[r] >= 0 THEN maxRetries[r] + 1 ELSE 0)
           /\ (/\ Len(fnLog[r]) >= 1
               /\ \A i \in 1 .. Len(fnLog[r]) : FailedUnavailable(r, i))
              => IF Len(fnLog[r]) = maxRetries[r] + 1
                 THEN /\ rpc[r] = "done"
                      /\ rres[r] = fnLog[r][Len(fnLog[r])]
                      /\ fnCalls[r] = maxRetries[r] + 1
                 ELSE rpc[r] # "done"

C2_Witness ==
    \E r \in Runners :
        /\ maxRetries[r] = DEFAULT_MAX_RETRIES
        /\ rpc[r] = "done"
        /\ fnCalls[r] = 4
        /\ rres[r].kind = "throw"
        /\ rres[r].error.name = "ServiceUnavailableError"
        /\ rres[r].error.at = 4

\* C3: after k failures in a row with ServiceUnavailableError, k <
\* maxRetries, withRetry has not given up; and when the next invocation
\* succeeds withRetry is done, has returned that value and the operation
\* was invoked exactly k + 1 times.
C3_ReturnsFirstSuccess ==
    \A r \in Runners :
        LET n == Len(fnLog[r]) IN
        /\ (/\ n >= 1
            /\ n < maxRetries[r]
            /\ \A i \in 1 .. n : FailedUnavailable(r, i))
           => rpc[r] \in {"sleeping", "calling"}
        /\ (/\ n >= 1
            /\ n - 1 < maxRetries[r]
            /\ fnLog[r][n].kind = "return"
            /\ \A i \in 1 .. n - 1 : FailedUnavailable(r, i))
           => /\ rpc[r] = "done"
              /\ rres[r] = fnLog[r][n]
              /\ fnCalls[r] = n

C3_Witness ==
    \E r \in Runners :
        /\ maxRetries[r] = 3
        /\ Len(fnLog[r]) = 3
        /\ FailedUnavailable(r, 1) /\ FailedUnavailable(r, 2)
        /\ rres[r] = Return("ok")
        /\ fnCalls[r] = 3

\* C4: the i-th sleep of a run, taken after the failed attempt with index
\* i - 1, lasts min(baseDelay * 2^(i-1), 10000) ms; the delays never
\* exceed 10000 ms and never decrease.
C4_CappedExponentialBackoff ==
    \A r \in Runners :
        /\ rpc[r] = "sleeping" => Len(sleeps[r]) = attempt[r] + 1
        /\ \A i \in 1 .. Len(sleeps[r]) :
              /\ sleeps[r][i] = IF baseDelay[r] * 2^(i - 1) < 10000
                                THEN baseDelay[r] * 2^(i - 1) ELSE 10000
              /\ sleeps[r][i] <= 10000
              /\ i > 1 => sleeps[r][i - 1] <= sleeps[r][i]

C4_Witness ==
    \E r \in Runners :
        /\ Len(sleeps[r]) = 3
        /\ sleeps[r][1] = 3000
        /\ sleeps[r][2] = 6000
        /\ sleeps[r][3] = 10000

\* the sleeps of runner r so far follow failed attempts: the i-th sleep
\* follows the i-th invocation, which failed with ServiceUnavailableError
\* while a retry remained, and an invocation is awaited or slept after
SleepsFollowFailures(r) ==
    /\ Len(sleeps[r]) <= Len(fnLog[r])
    /\ \A i \in 1 .. Len(sleeps[r]) :
          FailedUnavailable(r, i) /\ i - 1 < maxRetries[r]
    /\ rpc[r] = "sleeping" => Len(sleeps[r]) = fnCalls[r]
    /\ rpc[r] = "calling" => Len(sleeps[r]) = fnCalls[r] - 1

\* C25 as stated: a sleep follows only an attempt that failed with
\* ServiceUnavailableError while attempts remain, and in every completed
\* run the number of sleeps is the number of invocations minus one.
C25_SleepsAreInvocationsMinusOne ==
    \A r \in Runners :
        /\ SleepsFollowFailures(r)
        /\ rpc[r] = "done" => Len(sleeps[r]) = fnCalls[r] - 1

\* C25 amended: a sleep follows only an attempt that failed with
\* ServiceUnavailableError while a retry remains; a completed run that
\* invoked the operation slept once less than it invoked, so the failure
\* of invocation maxRetries + 1 is rethrown after maxRetries sleeps; a run
\* with negative maxRetries completes with no invocation and no sleep.
C25_SleepsOnlyBetweenAttempts ==
    \A r \in Runners :
        /\ SleepsFollowFailures(r)
        /\ rpc[r] = "done"
           => IF maxRetries[r] >= 0
              THEN /\ fnCalls[r] >= 1
                   /\ Len(sleeps[r]) = fnCalls[r] - 1
                   /\ Len(fnLog[r]) = fnCalls[r]
                   /\ rres[r] = fnLog[r][fnCalls[r]]
              ELSE /\ fnCalls[r] = 0
                   /\ sleeps[r] = <<>>
                   /\ rres[r].kind = "throw"

C25_Witness ==
    \E r \in Runners :
        /\ maxRetries[r] = 2
        /\ rpc[r] = "done"
        /\ fnCalls[r] = 3
        /\ Len(sleeps[r]) = 2
        /\ FailedUnavailable(r, 3)
        /\ rres[r] = fnLog[r][3]

\* the invocations of runner r that have not settled, and all that the
\* run of runner r holds
InFlight(r) == fnCalls[r] - Len(fnLog[r])
RunOf(r) == <<rpc[r], maxRetries[r], baseDelay[r], attempt[r], fnCalls[r],
              fnLog[r], sleeps[r], rres[r]>>

\* C26: in every step, each run has at most one invocation in flight (one
\* exactly while it awaits the operation); an invocation after the first
\* starts only from the end of the sleep that followed the failure, with
\* ServiceUnavailableError, of the previous invocation; and a step of one
\* run changes nothing of the other run, whose invocations stay within
\* its own maxRetries + 1.
C26_SequentialIndependentAttempts ==
    [][/\ \A r \in Runners :
             /\ InFlight(r)' \in {0, 1}
             /\ (InFlight(r)' = 1) <=> (rpc'[r] = "calling")
             /\ rpc'[r] = "calling" => attempt'[r] = fnCalls'[r] - 1
             /\ fnCalls'[r] # fnCalls[r]
                => /\ fnCalls'[r] = fnCalls[r] + 1
                   /\ InFlight(r) = 0
                   /\ fnCalls'[r] <= maxRetries'[r] + 1
                   /\ fnCalls[r] >= 1
                      => /\ rpc[r] = "sleeping"
                         /\ FailedUnavailable(r, fnCalls[r])
                         /\ Len(sleeps[r]) = fnCalls[r]
       /\ \A r1, r2 \in Runners :
             r1 # r2 => RunOf(r1)' = RunOf(r1) \/ RunOf(r2)' = RunOf(r2)
      ]_vars

\* one run awaits its third invocation while the other, started with
\* maxRetries = 0, has given up after its only one
C26_Witness ==
    \E r1, r2 \in Runners :
        /\ r1 # r2
        /\ rpc[r1] = "calling" /\ fnCalls[r1] = 3 /\ Len(sleeps[r1]) = 2
        /\ maxRetries[r2] = 0 /\ rpc[r2] = "done" /\ fnCalls[r2] = 1
        /\ FailedUnavailable(r2, 1)

\* a completed run of runner r has an outcome: the value returned by its
\* last invocation, or an error
HasOutcome(r) ==
    \/ /\ rres[r].kind = "return"
       /\ fnCalls[r] >= 1
       /\ fnLog[r][fnCalls[r]] = rres[r]
    \/ rres[r].kind = "throw"

\* C27 (checked under SpecRetryFair): whatever maxRetries is, negative and
\* 0 included, a run of withRetry whose operation settles whenever invoked
\* completes, and a completed run has returned the value of a successful
\* invocation or thrown an error; a run still going has no outcome yet.
C27_AlwaysAnOutcome ==
    /\ [](\A r \in Runners :
             /\ rpc[r] = "done" => HasOutcome(r)
             /\ rpc[r] # "done" => rres[r] = Pending)
    /\ \A r \in Runners :
          (rpc[r] \in {"calling", "sleeping"}) ~> (rpc[r] = "done")

\* withRetry(fn, -1) never invoked fn and threw the error of the loop's end
C27_Witness ==
    \E r \in Runners :
        /\ maxRetries[r] = -1
        /\ rpc[r] = "done"
        /\ fnCalls[r] = 0
        /\ rres[r] = Throw([name |-> "Error", at |-> 0])

----------------------------------------------------------------------------
(* Properties of the facade operations, checked under Spec *)

\* what the interface calls an invalid input, stated on the arguments alone
BlankNamespace(c) ==
    /\ "namespace" \in DOMAIN c
    /\ c.namespace.t = "string"
    /\ \A k \in 1 .. Len(c.namespace.s) : c.namespace.s[k] = " "

BadVector(v) ==
    \/ v.t # "array"
    \/ v.items = <<>>
    \/ \E k \in 1 .. Len(v.items) : v.items[k].t # "number" \/ v.items[k].d = 0

BadId(id) ==
    \/ id.t # "string"
    \/ \A k \in 1 .. Len(id.s) : id.s[k] = " "

BadDocument(doc, first) ==
    \/ doc.t # "object"
    \/ "id" \notin DOMAIN doc.fields
    \/ "vector" \notin DOMAIN doc.fields
    \/ BadId(doc.fields["id"])
    \/ BadVector(doc.fields["vector"])
    \/ Len(doc.fields["vector"].items) # Len(first.fields["vector"].items)

BadBatch(docs) ==
    \/ docs.t # "array"
    \/ docs.items = <<>>
    \/ \E k \in 1 .. Len(docs.items) : BadDocument(docs.items[k], docs.items[1])

BadIds(ids) ==
    \/ ids.t # "array"
    \/ ids.items = <<>>
    \/ \E k \in 1 .. Len(ids.items) : BadId(ids.items[k])

NotPositiveInteger(v) ==
    /\ v.t # "undefined"
    /\ ~(v.t = "number" /\ v.d = 1 /\ v.n > 0)

BadMode(v) ==
    /\ v.t # "undefined"
    /\ ~(v.t = "string" /\ v.s \in {<<"vector">>, <<"text">>, <<"hybrid">>})

\* invalid for a reason other than the query mode
InvalidInputBesidesMode(c) ==
    CASE c.op = "upsert" -> BadBatch(c.vectors) \/ BlankNamespace(c)
      [] c.op = "query" ->
            \/ BadVector(c.vector) \/ BlankNamespace(c)
            \/ NotPositiveInteger(c.topK) \/ NotPositiveInteger(c.efSearch)
            \/ NotPositiveInteger(c.nprobe)
      [] c.op = "delete" -> BadIds(c.ids) \/ BlankNamespace(c)
      [] c.op = "getNamespace" -> BlankNamespace(c)
      [] OTHER -> FALSE

InvalidInput(c) ==
    InvalidInputBesidesMode(c) \/ (c.op = "query" /\ BadMode(c.mode))

\* the operation threw an error of the class name
ThrewA(p, name) ==
    /\ result[p].kind = "throw"
    /\ result[p].error.name = name

\* C5: an operation called with an invalid input has failed with
\* ValidationError without a call of fetch and without arming a timer.
C5_InvalidInputFailsFast ==
    \A p \in Procs :
        (pc[p] # "idle" /\ InvalidInput(call[p]))
        => /\ pc[p] = "done"
           /\ ThrewA(p, "ValidationError")
           /\ fetchCalls[p] = 0
           /\ timer[p] = "none"

\* what does hold of the code: an input invalid for a reason other than the
\* query mode fails with ValidationError before fetch and before the timer
InvalidInputBesidesModeFailsFast ==
    \A p \in Procs :
        (pc[p] # "idle" /\ InvalidInputBesidesMode(call[p]))
        => /\ pc[p] = "done"
           /\ ThrewA(p, "ValidationError")
           /\ fetchCalls[p] = 0
           /\ timer[p] = "none"

\* the base URL of the service the operation talks to
BaseUrlOf(c) ==
    IF c.op \in {"query", "getNamespace", "listNamespaces"}
       \/ (c.op = "health" /\ c.service # "ingest")
    THEN client.queryUrl ELSE client.ingestUrl

\* the runtime lets the request reach fetch
TransportReachable(c) ==
    /\ env.fetch
    /\ env.Headers
    /\ \E k \in 1 .. Len(BaseUrlOf(c).s) :
          /\ BaseUrlOf(c).s[k] \in Origins
          /\ \A j \in 1 .. k - 1 : BaseUrlOf(c).s[j] = " "

\* C6 as stated: every finished operation with valid input has made
\* exactly one call of fetch.
C6_ExactlyOneFetch ==
    \A p \in Procs :
        (pc[p] = "done" /\ ~InvalidInput(call[p])) => fetchCalls[p] = 1

\* C6 amended: an operation never makes more than one call of fetch; with
\* valid input it has made exactly one as soon as it is under way, provided
\* the runtime has fetch and Headers and the base URL parses; and a
\* response that is not 2xx ends the operation with an error after that one
\* call (ServiceUnavailableError for 503).
C6_AtMostOneFetch ==
    \A p \in Procs :
        /\ fetchCalls[p] <= 1
        /\ (pc[p] # "idle" /\ ~InvalidInput(call[p]) /\ TransportReachable(call[p]))
           => fetchCalls[p] = 1
        /\ (pc[p] = "done" /\ response[p] # Undefined
            /\ response[p][1].status \notin 200 .. 299)
           => /\ result[p].kind = "throw"
              /\ fetchCalls[p] = 1
              /\ response[p][1].status = 503 => ThrewA(p, "ServiceUnavailableError")

C6_Witness ==
    \E p \in Procs :
        /\ pc[p] = "done"
        /\ call[p].op = "status"
        /\ response[p] # Undefined
        /\ response[p][1].status = 503
        /\ ThrewA(p, "ServiceUnavailableError")
        /\ fetchCalls[p] = 1

\* C7: an operation that received a response whose status is not 2xx has
\* failed with ValidationError for 400 and 413, NotFoundError for 404,
\* ServiceUnavailableError for 503 and otherwise with the generic
\* TidepoolError carrying that status.
C7_StatusToErrorKind ==
    \A p \in Procs :
        (pc[p] = "done" /\ response[p] # Undefined
         /\ response[p][1].status \notin 200 .. 299)
        => LET st == response[p][1].status IN
           /\ result[p].kind = "throw"
           /\ st \in {400, 413} => result[p].error.name = "ValidationError"
           /\ st = 404 => result[p].error.name = "NotFoundError"
           /\ st = 503 => result[p].error.name = "ServiceUnavailableError"
           /\ st \notin {400, 413, 404, 503}
              => /\ result[p].error.name = "TidepoolError"
                 /\ result[p].error.statusCode = <<st>>

C7_Witness ==
    \E p \in Procs :
        /\ pc[p] = "done"
        /\ response[p] # Undefined
        /\ response[p][1].status = 413
        /\ ThrewA(p, "ValidationError")

\* C8: an operation whose timeout timer fired while it was running has
\* failed with the generic TidepoolError carrying status 408.
C8_TimeoutSurfacesAs408 ==
    \A p \in Procs :
        (pc[p] = "done" /\ timer[p] = "fired")
        => /\ ThrewA(p, "TidepoolError")
           /\ result[p].error.statusCode = <<408>>

\* C9: no finished operation has left its timer pending, and no timer has
\* fired after its operation ended.
C9_TimerReleasedOnEveryExit ==
    \A p \in Procs :
        pc[p] = "done" => timer[p] \notin {"pending", "late"}

----------------------------------------------------------------------------
(* Properties of concurrent operations, checked under SpecConc *)

\* the namespace an operation resolves: its own when given, else the
\* client's default
OwnNamespace(c) ==
    IF c.namespace.t = "string"
    THEN SelectSeq(c.namespace.s, LAMBDA piece : piece # " ")
    ELSE client.namespace.s

\* the URL of the request of an operation, from its own arguments
OwnUrl(c) ==
    CASE c.op = "query" ->
            JStr(<<"http://localhost:8080", "/v1/vectors/">> \o OwnNamespace(c))
      [] c.op = "upsert" ->
            JStr(<<"http://localhost:8081", "/v1/vectors/">> \o OwnNamespace(c))
      [] c.op = "getNamespace" ->
            JStr(<<"http://localhost:8080", "/v1/namespaces/">> \o OwnNamespace(c))

\* what the operation of caller p does when it runs alone, receives the
\* response that p received and times out iff p's own timer fired
AloneResults(p) ==
    LET ends == IF timer[p] = "fired" THEN {"abort"}
                ELSE {"complete", "streamError"}
    IN  IF response[p] = Undefined
        THEN {Outcome(call[p], tryCatch(client, Fail(
                 IF timer[p] = "fired" THEN ReadError("abort")
                 ELSE RuntimeError("TypeError", JStr(<<"fetch failed">>)))))}
        ELSE {Outcome(call[p], tryCatch(client, afterBody(response[p][1], how))) :
                 how \in ends}

\* C10: each of two concurrent operations sends its request to the URL of
\* its own namespace, has an abort controller of its own which only its own
\* timer aborts, and ends with a result it can end with when run alone.
C10_ConcurrentCallsIndependent ==
    \A p \in Procs :
        /\ sent[p] # Undefined
           => /\ sent[p][1].url = OwnUrl(call[p])
              /\ \A q \in Procs \ {p} :
                    sent[q] # Undefined
                    => sent[q][1].controller # sent[p][1].controller
              /\ aborted[sent[p][1].controller] => timer[p] = "fired"
        /\ pc[p] = "done" => result[p] \in AloneResults(p)

C10_Witness ==
    /\ pc[1] = "done" /\ pc[2] = "done"
    /\ call[1].op = "query" /\ call[2].op = "query"
    /\ call[1].namespace = JStr(<<"tenant_a">>)
    /\ call[2].namespace = JStr(<<"tenant_b">>)
    /\ sent[1][1].url = JStr(<<"http://localhost:8080", "/v1/vectors/", "tenant_a">>)
    /\ sent[2][1].url = JStr(<<"http://localhost:8080", "/v1/vectors/", "tenant_b">>)
    /\ ThrewA(1, "TidepoolError")
    /\ result[1].error.statusCode = <<408>>
    /\ result[2].kind = "return"

\* C11: the client's query URL, ingest URL, timeout and default namespace
\* are those of its construction whatever operations were called, and an
\* operation called without a namespace goes to the default namespace also
\* when another operation was called with a namespace of its own.
C11_ConfigurationImmutable ==
    /\ client = DefaultClient
    /\ \A p \in Procs :
          (sent[p] # Undefined /\ call[p].namespace = JUndefined)
          => sent[p][1].url
             = JStr(<<"http://localhost:8080", "/v1/vectors/", "default">>)

C11_Witness ==
    /\ pc[1] = "done"
    /\ call[1].op = "query"
    /\ call[1].namespace = JStr(<<"tenant_a">>)
    /\ sent[1][1].url = JStr(<<"http://localhost:8080", "/v1/vectors/", "tenant_a">>)
    /\ pc[2] = "done"
    /\ call[2].op = "query"
    /\ call[2].namespace = JUndefined
    /\ sent[2][1].url = JStr(<<"http://localhost:8080", "/v1/vectors/", "default">>)
    /\ client = DefaultClient

\* the operations which the interface gives a namespace, of those the
\* client has
NamespaceOps == {"upsert", "query", "delete", "getNamespace", "compact"}

\* the namespace an operation is to use: the supplied one (without the
\* white space around it) when given and not blank, else the default
ResolvedNamespace(c) ==
    IF c.namespace.t = "string" /\ \E k \in 1 .. Len(c.namespace.s) : c.namespace.s[k] # " "
    THEN SelectSeq(c.namespace.s, LAMBDA piece : piece # " ")
    ELSE client.namespace.s

\* the sequence part occurs in the sequence whole
Occurs(part, whole) ==
    \E i \in 1 .. Len(whole) - Len(part) + 1 :
        SubSeq(whole, i, i + Len(part) - 1) = part

\* invalid for a reason other than the namespace
InvalidBesidesNamespace(c) ==
    CASE c.op = "upsert" -> BadBatch(c.vectors)
      [] c.op = "query" ->
            \/ BadVector(c.vector) \/ NotPositiveInteger(c.topK)
            \/ NotPositiveInteger(c.efSearch) \/ NotPositiveInteger(c.nprobe)
      [] c.op = "delete" -> BadIds(c.ids)
      [] OTHER -> FALSE

\* C12: every operation that takes a namespace, when nothing else is wrong
\* with its input and the request can be sent, sends its request to a path
\* holding the supplied namespace if one is given and not blank, and the
\* default namespace otherwise (a blank namespace included).
C12_NamespaceResolution ==
    \A p \in Procs :
        (pc[p] # "idle" /\ call[p].op \in NamespaceOps
         /\ ~InvalidBesidesNamespace(call[p]) /\ TransportReachable(call[p]))
        => /\ sent[p] # Undefined
           /\ Occurs(ResolvedNamespace(call[p]), sent[p][1].url.s)

\* what does hold of the code: upsert, query, delete and getNamespace send
\* to the path of the supplied namespace when it is not blank and of the
\* default namespace when it is omitted, and fail with ValidationError
\* without a request when it is blank
NamespaceResolutionOfVectorOps ==
    \A p \in Procs :
        (pc[p] # "idle" /\ call[p].op \in NamespaceOps \ {"compact"}
         /\ ~InvalidBesidesNamespace(call[p]) /\ TransportReachable(call[p]))
        => IF BlankNamespace(call[p])
           THEN sent[p] = Undefined /\ ThrewA(p, "ValidationError")
           ELSE /\ sent[p] # Undefined
                /\ Occurs(ResolvedNamespace(call[p]), sent[p][1].url.s)

----------------------------------------------------------------------------
(* Properties of the constructor, checked under SpecNew *)

\* a configuration string that is given and blank
GivenBlank(opt) ==
    opt # Undefined /\ \A k \in 1 .. Len(opt[1].s) : opt[1].s[k] = " "

\* a timeout that is given and not a positive finite number
GivenBadTimeout(opt) ==
    opt # Undefined /\ (opt[1].d = 0 \/ opt[1].n <= 0)

ConstructedDefaults ==
    /\ config = DefaultConfig
    /\ constructed = Return(DefaultClient)
    /\ client.timeout = JNum(30000)

\* the method and the path of the interface table for an operation
TableMethod(c) ==
    CASE c.op \in {"upsert", "query", "compact"} -> "POST"
      [] c.op = "delete" -> "DELETE"
      [] OTHER -> "GET"

TablePath(c) ==
    CASE c.op \in {"upsert", "query", "delete"} ->
            <<"/v1/vectors/">> \o ResolvedNamespace(c)
      [] c.op = "getNamespace" -> <<"/v1/namespaces/">> \o ResolvedNamespace(c)
      [] c.op = "listNamespaces" -> <<"/v1/namespaces">>
      [] c.op = "getNamespaceStatus" ->
            <<"/v1/namespaces/">> \o ResolvedNamespace(c) \o <<"/status">>
      [] c.op = "status" -> <<"/status">>
      [] c.op = "compact" ->
            <<"/v1/namespaces/">> \o ResolvedNamespace(c) \o <<"/compact">>

TableOps ==
    {"upsert", "query", "delete", "getNamespace", "listNamespaces",
     "getNamespaceStatus", "status", "compact"}

\* the request of caller p went to the service base with method and path
SentTo(p, base, method, path) ==
    /\ sent[p][1].method = method
    /\ sent[p][1].url.s
          = <<SelectSeq(base.s, LAMBDA piece : piece # " ")[1]>> \o path

\* C22: the request of every operation has the method of the interface
\* table and goes to the service and the path of the table, with the
\* resolved namespace of the call in the place of {ns}.
C22_EndpointRouting ==
    \A p \in Procs :
        (sent[p] # Undefined /\ call[p].op \in TableOps)
        => SentTo(p, BaseUrlOf(call[p]), TableMethod(call[p]), TablePath(call[p]))

\* what does hold of the code: every operation but compact is routed as in
\* the table, and compact goes to POST /compact of the ingest service
RoutingWithFlatCompact ==
    \A p \in Procs :
        (sent[p] # Undefined /\ call[p].op \in TableOps)
        => IF call[p].op = "compact"
           THEN SentTo(p, client.ingestUrl, "POST", <<"/compact">>)
           ELSE SentTo(p, BaseUrlOf(call[p]), TableMethod(call[p]),
                       TablePath(call[p]))

----------------------------------------------------------------------------
(* Properties of query, checked under Spec *)

\* what a query call asks for under the name key, in either calling
\* convention: query(vector, options) or query(request)
Asked(c, key) ==
    IF c.vector.t = "object" THEN Get(c.vector, key)
    ELSE IF key = "vector" THEN c.vector
    ELSE c[key]

\* a text that is given and not blank
NonBlankText(v) ==
    v.t = "string" /\ \E k \in 1 .. Len(v.s) : v.s[k] # " "

\* the JSON body of the request sent by caller p
WireBody(p) == sent[p][1].body.fields

\* C14: a query called with a bare valid vector sends one POST; a query
\* called with one request object that has a text, the mode "text" and no
\* vector also sends one POST, whose body has the mode "text", that text
\* and no vector, to the path of the namespace of the request.
C14_BothCallingConventions ==
    \A p \in Procs :
        (pc[p] # "idle" /\ call[p].op = "query" /\ TransportReachable(call[p]))
        => /\ (call[p].vector.t = "array" /\ ~InvalidInput(call[p]))
              => /\ fetchCalls[p] = 1
                 /\ sent[p][1].method = "POST"
           /\ (/\ call[p].vector.t = "object"
               /\ Asked(call[p], "vector") = JUndefined
               /\ NonBlankText(Asked(call[p], "text"))
               /\ Asked(call[p], "mode") = JStr(<<"text">>)
               /\ NonBlankText(Asked(call[p], "namespace")))
              => /\ fetchCalls[p] = 1
                 /\ sent[p][1].method = "POST"
                 /\ "vector" \notin DOMAIN WireBody(p)
                 /\ "mode" \in DOMAIN WireBody(p)
                 /\ WireBody(p)["mode"] = JStr(<<"text">>)
                 /\ "text" \in DOMAIN WireBody(p)
                 /\ WireBody(p)["text"] = Asked(call[p], "text")
                 /\ Occurs(Asked(call[p], "namespace").s, sent[p][1].url.s)

\* what does hold of the code: query(vector, options) with a valid vector
\* sends one POST, and query(request) fails with ValidationError without a
\* request because the request object is not an array
BareVectorConventionOnly ==
    \A p \in Procs :
        (pc[p] # "idle" /\ call[p].op = "query" /\ TransportReachable(call[p]))
        => /\ (call[p].vector.t = "array" /\ ~InvalidInput(call[p]))
              => /\ fetchCalls[p] = 1
                 /\ sent[p][1].method = "POST"
           /\ call[p].vector.t = "object"
              => /\ fetchCalls[p] = 0
                 /\ ThrewA(p, "ValidationError")

\* a query call with nothing wrong besides, possibly, its mode, vector
\* presence and text
OtherwiseValidQuery(c) ==
    /\ c.op = "query"
    /\ c.vector.t \in {"array", "object"}
    /\ Asked(c, "vector") = JUndefined \/ ~BadVector(Asked(c, "vector"))
    /\ ~NotPositiveInteger(Asked(c, "topK"))
    /\ ~NotPositiveInteger(Asked(c, "efSearch"))
    /\ ~NotPositiveInteger(Asked(c, "nprobe"))
    /\ ~NotPositiveInteger(Asked(c, "rrfK"))
    /\ Asked(c, "namespace") = JUndefined \/ NonBlankText(Asked(c, "namespace"))

HasVector(c) == Asked(c, "vector") # JUndefined
HasText(c) == NonBlankText(Asked(c, "text"))

\* the mode of a query: the given one, else the one inferred from what
\* the query has
EffectiveMode(c) ==
    IF Asked(c, "mode") # JUndefined THEN Asked(c, "mode")
    ELSE IF HasVector(c) /\ HasText(c) THEN JStr(<<"hybrid">>)
    ELSE IF HasText(c) THEN JStr(<<"text">>)
    ELSE JStr(<<"vector">>)

\* the mode lacks an input it requires
ModeLacksInput(c) ==
    \/ EffectiveMode(c) = JStr(<<"vector">>) /\ ~HasVector(c)
    \/ EffectiveMode(c) = JStr(<<"text">>) /\ ~HasText(c)
    \/ EffectiveMode(c) = JStr(<<"hybrid">>) /\ ~(HasVector(c) /\ HasText(c))

\* C15: a query with a mode outside {vector, text, hybrid}, or with a mode
\* whose required inputs are missing, fails with ValidationError; every
\* other query sends a body whose mode is the given one or, when none is
\* given, hybrid with a vector and a text, text with a text only and
\* vector otherwise.
C15_ModeInferredAndChecked ==
    \A p \in Procs :
        (pc[p] # "idle" /\ OtherwiseValidQuery(call[p])
         /\ TransportReachable(call[p]))
        => IF BadMode(Asked(call[p], "mode")) \/ ModeLacksInput(call[p])
           THEN pc[p] = "done" /\ ThrewA(p, "ValidationError")
           ELSE /\ sent[p] # Undefined
                /\ "mode" \in DOMAIN WireBody(p)
                /\ WireBody(p)["mode"] = EffectiveMode(call[p])

\* what does hold of the code: no request of query has a mode or a text
NoModeOnTheWire ==
    \A p \in Procs :
        (sent[p] # Undefined /\ call[p].op = "query")
        => /\ "mode" \notin DOMAIN WireBody(p)
           /\ "text" \notin DOMAIN WireBody(p)

\* a number brought into [0, 1]
Clamped(v) ==
    IF v.n < 0 THEN JNum(0) ELSE IF v.n > v.d THEN JNum(1) ELSE v

\* a text without the white space around it
Trimmed(v) == JStr(SelectSeq(v.s, LAMBDA piece : piece # " "))

\* the wire key key holds the value v exactly when given holds
HoldsWhen(p, key, given, v) ==
    IF given THEN key \in DOMAIN WireBody(p) /\ WireBody(p)[key] = v
    ELSE key \notin DOMAIN WireBody(p)

\* the options sent under a key of their own, as they are
PlainKeys ==
    {<<"vector", "vector">>, <<"distanceMetric", "distance_metric">>,
     <<"filters", "filters">>, <<"efSearch", "ef_search">>,
     <<"nprobe", "nprobe">>}
HybridKeys == {<<"fusion", "fusion">>, <<"rrfK", "rrf_k">>}

\* C16: the body of the request of every valid query has top_k (the given
\* topK, else 10), include_vectors (else false) and mode, and has each of
\* vector, text, distance_metric, filters, ef_search, nprobe, alpha, fusion
\* and rrf_k exactly when the option is given, with the given value, alpha
\* brought into [0, 1].
C16_QueryWireBody ==
    \A p \in Procs :
        (/\ sent[p] # Undefined /\ OtherwiseValidQuery(call[p])
         /\ ~BadMode(Asked(call[p], "mode")) /\ ~ModeLacksInput(call[p]))
        => LET c == call[p] IN
           /\ HoldsWhen(p, "top_k", TRUE,
                 IF Asked(c, "topK") = JUndefined THEN JNum(10)
                 ELSE Asked(c, "topK"))
           /\ HoldsWhen(p, "include_vectors", TRUE,
                 IF Asked(c, "includeVectors") = JUndefined THEN JBool(FALSE)
                 ELSE Asked(c, "includeVectors"))
           /\ "mode" \in DOMAIN WireBody(p)
           /\ \A k \in PlainKeys \cup HybridKeys :
                 HoldsWhen(p, k[2], Asked(c, k[1]) # JUndefined, Asked(c, k[1]))
           /\ HoldsWhen(p, "text", HasText(c), Trimmed(Asked(c, "text")))
           /\ HoldsWhen(p, "alpha", Asked(c, "alpha") # JUndefined,
                        Clamped(Asked(c, "alpha")))

\* what does hold of the code: top_k, include_vectors and the five options
\* of the vector search are sent as claimed
VectorSearchKeysOnTheWire ==
    \A p \in Procs :
        (sent[p] # Undefined /\ call[p].op = "query")
        => LET c == call[p] IN
           /\ HoldsWhen(p, "top_k", TRUE,
                 IF c.topK = JUndefined THEN JNum(10) ELSE c.topK)
           /\ HoldsWhen(p, "include_vectors", TRUE,
                 IF c.includeVectors = JUndefined THEN JBool(FALSE)
                 ELSE c.includeVectors)
           /\ \A k \in PlainKeys :
                 HoldsWhen(p, k[2], c[k[1]] # JUndefined, c[k[1]])
           /\ DOMAIN WireBody(p) \subseteq
                 {"top_k", "include_vectors"} \cup {k[2] : k \in PlainKeys}

----------------------------------------------------------------------------
(* Properties of response normalization, checked under SpecShape *)

\* the decoded body of the response of caller p
DataOf(p) == response[p][1].body.parse.value

\* the result list a query response body holds, undefined when none
ListIn(data) ==
    IF data.t = "array" THEN data
    ELSE IF Get(data, "results").t = "array" THEN Get(data, "results")
    ELSE IF Get(data, "vectors").t = "array" THEN Get(data, "vectors")
    ELSE JUndefined

\* the namespace a query response body names, undefined when none
NamespaceIn(data) ==
    IF Get(data, "namespace").t = "string" /\ Get(data, "namespace").s # <<>>
    THEN Get(data, "namespace")
    ELSE IF Get(data, "ns").t = "string" /\ Get(data, "ns").s # <<>>
    THEN Get(data, "ns")
    ELSE JUndefined

\* caller p made a query whose response body was read to its end
QueryAnswered(p) ==
    pc[p] = "done" /\ call[p].op = "query" /\ bodyEnd[p] = "complete"

\* C17: a query whose response body is a bare list, or a record with the
\* list under results or vectors, returns a record {namespace, results}
\* with the results of the list in their order and with the namespace of
\* the body when the body names one, else the resolved namespace of the
\* request; with every other body it fails with the generic TidepoolError.
C17_QueryResponseNormalized ==
    \A p \in Procs :
        QueryAnswered(p)
        => IF ListIn(DataOf(p)) = JUndefined
           THEN ThrewA(p, "TidepoolError")
           ELSE /\ result[p].kind = "return"
                /\ result[p].value.t = "object"
                /\ Get(result[p].value, "namespace") =
                      IF NamespaceIn(DataOf(p)) # JUndefined
                      THEN NamespaceIn(DataOf(p))
                      ELSE JStr(ResolvedNamespace(call[p]))
                /\ Get(result[p].value, "results").t = "array"
                /\ Len(Get(result[p].value, "results").items)
                      = Len(ListIn(DataOf(p)).items)
                /\ \A k \in 1 .. Len(ListIn(DataOf(p)).items) :
                      Get(Get(result[p].value, "results").items[k], "id")
                         = Get(ListIn(DataOf(p)).items[k], "id")

\* what does hold of the code: with a bare list, or a record with the list
\* under results, query returns an array with the results of the list in
\* their order; with every other body, a record with the list under
\* vectors included, it fails with the generic TidepoolError
QueryReturnsBareArray ==
    \A p \in Procs :
        QueryAnswered(p)
        => LET data == DataOf(p)
               list == IF data.t = "array" THEN data ELSE Get(data, "results")
           IN  IF list.t # "array"
               THEN ThrewA(p, "TidepoolError")
               ELSE /\ result[p].kind = "return"
                    /\ result[p].value.t = "array"
                    /\ Len(result[p].value.items) = Len(list.items)
                    /\ \A k \in 1 .. Len(list.items) :
                          Get(result[p].value.items[k], "id")
                             = StringOf(Get(list.items[k], "id"))

\* the results a query returned, in a record or as they are
ResultsOf(v) == IF v.t = "array" THEN v ELSE Get(v, "results")

\* the relevance of a returned result, under the name score or dist
RelevanceOf(r) ==
    IF Get(r, "score") # JUndefined THEN Get(r, "score") ELSE Get(r, "dist")

\* the first of the fields score, dist, distance that a backend record
\* has, else 0
FirstOfScoreDistDistance(item) ==
    IF Get(item, "score") # JUndefined THEN Get(item, "score")
    ELSE IF Get(item, "dist") # JUndefined THEN Get(item, "dist")
    ELSE IF Get(item, "distance") # JUndefined THEN Get(item, "distance")
    ELSE JNum(0)

\* C19: the relevance of every result a query returns is the score of the
\* backend's record if it has one, else its dist, else its distance, else
\* 0; the record {id: "doc-1", score: 0.92} gives the relevance 0.92.
C19_ScorePriority ==
    \A p \in Procs :
        (QueryAnswered(p) /\ ListIn(DataOf(p)) # JUndefined)
        => /\ result[p].kind = "return"
           /\ ResultsOf(result[p].value).t = "array"
           /\ Len(ResultsOf(result[p].value).items) = Len(ListIn(DataOf(p)).items)
           /\ \A k \in 1 .. Len(ListIn(DataOf(p)).items) :
                 RelevanceOf(ResultsOf(result[p].value).items[k])
                    = FirstOfScoreDistDistance(ListIn(DataOf(p)).items[k])

\* what does hold of the code: the relevance is returned as dist, the dist
\* of the backend's record if it has one, else its distance, else NaN; a
\* score is not read
DistThenDistance ==
    \A p \in Procs :
        (QueryAnswered(p) /\ result[p].kind = "return")
        => LET list == IF DataOf(p).t = "array" THEN DataOf(p)
                       ELSE Get(DataOf(p), "results")
           IN  \A k \in 1 .. Len(list.items) :
                  LET r == result[p].value.items[k] IN
                  /\ Get(r, "score") = JUndefined
                  /\ Get(r, "dist") =
                        IF Get(list.items[k], "dist") # JUndefined
                        THEN Get(list.items[k], "dist")
                        ELSE IF Get(list.items[k], "distance") # JUndefined
                        THEN Get(list.items[k], "distance")
                        ELSE JNaN

\* the first of the two values that is given
FirstGiven(a, b, dflt) ==
    IF a \notin {JUndefined, JNull} THEN a
    ELSE IF b \notin {JUndefined, JNull} THEN b
    ELSE dflt

\* the numeric fields of a status: the name returned, its camelCase key
\* and its snake_case key on the wire
StatusNumbers ==
    {<<"walFiles", "wal_files">>, <<"walEntries", "wal_entries">>,
     <<"segments", "segments">>, <<"totalVecs", "total_vecs">>,
     <<"dimensions", "dimensions">>}

\* the status the record data normalizes to
StatusAsClaimed(v, data) ==
    /\ v.t = "object"
    /\ LET raw == FirstGiven(Get(data, "lastRun"), Get(data, "last_run"), JNull)
       IN  Get(v, "lastRun") =
              IF raw.t = "string" /\ raw.s \in ParseableDates
              THEN [t |-> "date", iso |-> raw.s] ELSE JNull
    /\ \A f \in StatusNumbers :
          Get(v, f[1]) = FirstGiven(Get(data, f[1]), Get(data, f[2]), JNum(0))

\* C20: status() and getNamespaceStatus() send their request, and when the
\* body of the response is a record they return a status whose lastRun is
\* the parsed time of lastRun, else last_run, or null when that is absent,
\* null or unparseable, and whose numeric fields are read from the
\* camelCase key, else from the snake_case key, else are 0.
C20_StatusNormalized ==
    \A p \in Procs :
        (pc[p] = "done" /\ call[p].op \in {"status", "getNamespaceStatus"})
        => /\ sent[p] # Undefined
           /\ (bodyEnd[p] = "complete" /\ DataOf(p).t = "object")
              => /\ result[p].kind = "return"
                 /\ StatusAsClaimed(result[p].value, DataOf(p))

\* what does hold of the code: status() normalizes a record as claimed
StatusOfIngestNormalized ==
    \A p \in Procs :
        (pc[p] = "done" /\ call[p].op = "status")
        => /\ sent[p] # Undefined
           /\ (bodyEnd[p] = "complete" /\ DataOf(p).t = "object")
              => /\ result[p].kind = "return"
                 /\ StatusAsClaimed(result[p].value, DataOf(p))

\* status() answered with last_run "bad-date" returned lastRun null
BadDateGivesNull ==
    \E p \in Procs :
        /\ pc[p] = "done" /\ call[p].op = "status" /\ bodyEnd[p] = "complete"
        /\ Get(DataOf(p), "last_run") = JStr(<<"bad-date">>)
        /\ result[p].kind = "return"
        /\ Get(result[p].value, "lastRun") = JNull
        /\ Get(result[p].value, "walEntries") = JNum(2)

\* the list of namespaces a response body holds, undefined when none
NamesIn(data) ==
    IF data.t = "array" THEN data
    ELSE IF Get(data, "namespaces").t = "array" THEN Get(data, "namespaces")
    ELSE IF Get(data, "namespace_list").t = "array" THEN Get(data, "namespace_list")
    ELSE IF Get(data, "namespaceList").t = "array" THEN Get(data, "namespaceList")
    ELSE JUndefined

\* a list item that names a namespace: a name, or a record with a name
NamesANamespace(item) ==
    \/ item.t = "string" /\ NonBlankText(item)
    \/ item.t = "object" /\ NonBlankText(Get(item, "namespace"))

\* caller p listed the namespaces and the response body was read to its end
ListAnswered(p) ==
    pc[p] = "done" /\ call[p].op = "listNamespaces" /\ bodyEnd[p] = "complete"

\* C21: listNamespaces, answered with a bare list or with a record that
\* has the list under namespaces, namespace_list or namespaceList, returns
\* one info record per item: for a name the record of that namespace, for
\* a record its normalized form (approx_count as approxCount,
\* pending_compaction as pendingCompaction); answered with any other body
\* it fails with the generic TidepoolError.
C21_NamespaceListNormalized ==
    \A p \in Procs :
        ListAnswered(p)
        => LET list == NamesIn(DataOf(p)) IN
           IF list = JUndefined THEN ThrewA(p, "TidepoolError")
           ELSE (\A k \in 1 .. Len(list.items) : NamesANamespace(list.items[k]))
                => /\ result[p].kind = "return"
                   /\ result[p].value.t = "array"
                   /\ Len(result[p].value.items) = Len(list.items)
                   /\ \A k \in 1 .. Len(list.items) :
                         LET item == list.items[k]
                             info == result[p].value.items[k]
                         IN  /\ info.t = "object"
                             /\ Get(info, "namespace") =
                                   IF item.t = "string" THEN item
                                   ELSE Get(item, "namespace")
                             /\ Get(item, "approx_count") # JUndefined
                                => Get(info, "approxCount") = Get(item, "approx_count")
                             /\ Get(item, "pending_compaction") # JUndefined
                                => Get(info, "pendingCompaction")
                                      = Get(item, "pending_compaction")

\* what does hold of the code: answered with a bare list, or a record with
\* the list under namespaces or namespace_list, listNamespaces returns the
\* items of the list converted to strings; answered with any other body,
\* a record with the list under namespaceList included, it fails with the
\* generic TidepoolError
ListNamespacesReturnsStrings ==
    \A p \in Procs :
        ListAnswered(p)
        => LET data == DataOf(p)
               list == IF data.t = "array" THEN data
                       ELSE IF Get(data, "namespaces").t = "array"
                       THEN Get(data, "namespaces")
                       ELSE Get(data, "namespace_list")
           IN  IF list.t # "array" THEN ThrewA(p, "TidepoolError")
               ELSE /\ result[p].kind = "return"
                    /\ result[p].value.t = "array"
                    /\ Len(result[p].value.items) = Len(list.items)
                    /\ \A k \in 1 .. Len(list.items) :
                          result[p].value.items[k] = StringOf(list.items[k])

----------------------------------------------------------------------------
(* Properties of two queries, checked under SpecPair *)

----------------------------------------------------------------------------
(* Properties of the errors of a response, checked under Spec *)

\* caller p received a response whose status is not 2xx
Refused(p) ==
    /\ pc[p] = "done"
    /\ response[p] # Undefined
    /\ response[p][1].status \notin 200 .. 299

\* the decoded body of a response, undefined when it does not decode
DecodedBody(resp) ==
    IF resp.body.parse.ok THEN resp.body.parse.value ELSE JUndefined

\* C23 as stated: the message of the error of a response that is not 2xx
\* is the error field of the body if present, else its message field, else
\* the textual body, else the status text.
C23_MessageFromBody ==
    \A p \in Procs :
        (Refused(p) /\ bodyEnd[p] = "complete")
        => LET resp == response[p][1]
               field == FirstGiven(Get(DecodedBody(resp), "error"),
                                   Get(DecodedBody(resp), "message"), JUndefined)
           IN  result[p].error.message =
                  IF field # JUndefined THEN field
                  ELSE IF resp.body.text.s # <<>> THEN resp.body.text
                  ELSE StatusText(resp.status)

\* C23 amended: for a response declared as JSON the message is the error
\* field of the decoded body if present, else its message field, else the
\* status text; for every other response it is the textual body if that
\* is not empty, else the status text; when the body cannot be read it is
\* the status text.
C23_MessageByContentType ==
    \A p \in Procs :
        Refused(p)
        => LET resp == response[p][1]
               field == FirstGiven(Get(DecodedBody(resp), "error"),
                                   Get(DecodedBody(resp), "message"), JStr(<<>>))
           IN  result[p].error.message =
                  IF bodyEnd[p] # "complete" THEN StatusText(resp.status)
                  ELSE IF resp.json
                  THEN IF field # JStr(<<>>) THEN field
                       ELSE StatusText(resp.status)
                  ELSE IF resp.body.text.s # <<>> THEN resp.body.text
                  ELSE StatusText(resp.status)

C23_Witness ==
    \E p \in Procs :
        /\ Refused(p)
        /\ call[p].op = "status"
        /\ bodyEnd[p] = "complete"
        /\ response[p][1].status = 503
        /\ response[p][1].json
        /\ DecodedBody(response[p][1]) = JObj([error |-> JStr(<<"overloaded">>)])
        /\ ThrewA(p, "ServiceUnavailableError")
        /\ result[p].error.message = JStr(<<"overloaded">>)

----------------------------------------------------------------------------
(* Properties of validateVector, checked under SpecValidate *)

\* the value is a sequence of finite numbers
FiniteNumbers(v) ==
    \A k \in 1 .. Len(v.items) : v.items[k].t = "number" /\ v.items[k].d # 0

\* C24: validateVector(v, expectedDims) returns if and only if v is a
\* non-empty sequence of finite numbers whose length is expectedDims when
\* that is given; otherwise it fails with ValidationError, and the message
\* is that of the first check failed in the order: not a sequence, empty,
\* an element that is not a finite number, the length (with the expected
\* and the actual length in the message).
C24_ValidateVectorExact ==
    \A p \in Procs :
        (pc[p] = "done" /\ call[p].op = "validateVector")
        => LET v == call[p].vector
               d == call[p].expectedDims
           IN  IF v.t # "array"
               THEN /\ ThrewA(p, "ValidationError")
                    /\ result[p].error.message = JStr(<<"Vector must be an array">>)
               ELSE IF Len(v.items) = 0
               THEN /\ ThrewA(p, "ValidationError")
                    /\ result[p].error.message = JStr(<<"Vector cannot be empty">>)
               ELSE IF ~FiniteNumbers(v)
               THEN /\ ThrewA(p, "ValidationError")
                    /\ result[p].error.message
                          = JStr(<<"Vector must contain only finite numbers">>)
               ELSE IF d # Undefined /\ Len(v.items) # d[1]
               THEN /\ ThrewA(p, "ValidationError")
                    /\ result[p].error.message
                          = JStr(<<"Expected ">> \o IntToStr(d[1])
                                 \o <<" dimensions, got ">>
                                 \o IntToStr(Len(v.items)))
               ELSE result[p].kind = "return"

C24_Witness ==
    \E p \in Procs :
        /\ pc[p] = "done"
        /\ call[p].op = "validateVector"
        /\ call[p].vector = JArr(<<JNum(1), JInfinity>>)
        /\ call[p].expectedDims = Some(3)
        /\ ThrewA(p, "ValidationError")
        /\ result[p].error.message = JStr(<<"Vector must contain only finite numbers">>)

\* validateVector([1, 1/2], 2) returned
ValidVectorAccepted ==
    \E p \in Procs :
        /\ pc[p] = "done"
        /\ call[p].op = "validateVector"
        /\ call[p].vector = JArr(<<JNum(1), JFrac(1, 2)>>)
        /\ call[p].expectedDims = Some(2)
        /\ result[p].kind = "return"

\* C28 as stated: an operation that failed with ValidationError made no
\* call of fetch.
C28_ValidationErrorMadeNoFetch ==
    \A p \in Procs :
        (pc[p] = "done" /\ ThrewA(p, "ValidationError")) => fetchCalls[p] = 0

\* what does hold of the code: an operation that failed with
\* ValidationError was refused by the client's own checks, and then it
\* made no call of fetch and armed no timer, or made one call of fetch
\* that was answered with status 400 or 413, or is a getNamespace whose
\* 2xx answer the normalizer refused; a call the client's checks refuse
\* never reaches fetch.
ValidationErrorSources ==
    \A p \in Procs :
        LET prep == Prepare(client, call[p]) IN
        /\ (pc[p] = "done" /\ ThrewA(p, "ValidationError"))
           => IF fetchCalls[p] = 0
              THEN /\ ~prep.ok
                   /\ result[p].error = prep.error
                   /\ response[p] = Undefined
                   /\ timer[p] = "none"
              ELSE /\ fetchCalls[p] = 1
                   /\ prep.ok
                   /\ response[p] # Undefined
                   /\ \/ response[p][1].status \in {400, 413}
                      \/ /\ response[p][1].status \in 200 .. 299
                         /\ call[p].op = "getNamespace"
                         /\ result[p].error.message
                               = JStr(<<"namespace", " must be a non-empty string">>)
        /\ (pc[p] # "idle" /\ ~prep.ok /\ prep.error.name = "ValidationError")
           => /\ pc[p] = "done"
              /\ fetchCalls[p] = 0
              /\ result[p] = Throw(prep.error)

\* getNamespace(), answered 200 with a body that names no namespace,
\* failed with ValidationError after its call of fetch
ValidationErrorFromNormalizer ==
    \E p \in Procs :
        /\ pc[p] = "done"
        /\ call[p].op = "getNamespace"
        /\ fetchCalls[p] = 1
        /\ response[p] # Undefined
        /\ response[p][1].status = 200
        /\ ThrewA(p, "ValidationError")

\* the operations that normalize the answer of the backend
NormalizingOps == {"getNamespace", "listNamespaces", "status",
                   "getNamespaceStatus", "query"}

\* C29: a finished normalizing operation has returned or has failed with a
\* TidepoolError (ValidationError, NotFoundError, ServiceUnavailableError
\* or the generic one), whatever the backend did.
C29_EveryFailureTyped ==
    \A p \in Procs :
        (pc[p] = "done" /\ call[p].op \in NormalizingOps)
        => \/ result[p].kind = "return"
           \/ result[p].kind = "throw" /\ IsTidepoolError(result[p].error)

\* what does hold of the code: the failures that are no TidepoolError are
\* the ReferenceError of a runtime without Headers and the TypeError of
\* getNamespace and status whose 2xx answer carried no body, a JSON body
\* that does not decode or whose reading failed, or null
UntypedFailuresOfNormalizingOps ==
    \A p \in Procs :
        (/\ pc[p] = "done"
         /\ call[p].op \in NormalizingOps
         /\ result[p].kind = "throw"
         /\ ~IsTidepoolError(result[p].error))
        => \/ ~env.Headers /\ result[p].error.name = "ReferenceError"
           \/ /\ call[p].op \in {"getNamespace", "status"}
              /\ result[p].error.name = "TypeError"
              /\ response[p] # Undefined
              /\ response[p][1].status \in 200 .. 299
              /\ \/ response[p][1].status = 204
                 \/ response[p][1].json /\ ~response[p][1].body.parse.ok
                 \/ response[p][1].json /\ bodyEnd[p] # "complete"
                 \/ response[p][1].json /\ response[p][1].body.parse.value.t = "null"

\* status(), answered 204, failed with a TypeError
StatusOf204ThrowsTypeError ==
    \E p \in Procs :
        /\ pc[p] = "done"
        /\ call[p].op = "status"
        /\ env.Headers
        /\ response[p] # Undefined
        /\ response[p][1].status = 204
        /\ result[p].kind = "throw"
        /\ result[p].error.name = "TypeError"

\* the body the client got from a response that is not 2xx: the decoded
\* body of a JSON response (the empty string when it is null or does not
\* decode), the text of any other response (the empty string when the
\* reading failed)
BodyGot(p) ==
    LET resp == response[p][1] IN
    IF bodyEnd[p] # "complete" THEN JStr(<<>>)
    ELSE IF ~resp.json THEN resp.body.text
    ELSE IF DecodedBody(resp).t \in {"undefined", "null"} THEN JStr(<<>>)
    ELSE DecodedBody(resp)

\* C30 as stated: the error of a response that is not 2xx, of whatever
\* class, carries the status code and the body of that response.
C30_ErrorsKeepStatusAndBody ==
    \A p \in Procs :
        Refused(p)
        => /\ result[p].kind = "throw"
           /\ IsTidepoolError(result[p].error)
           /\ result[p].error.statusCode = Some(response[p][1].status)
           /\ result[p].error.response = BodyGot(p)

\* C30 amended: the error of a response that is not 2xx reaches the caller
\* as the class mapped from the status, never re-wrapped; the generic
\* TidepoolError carries the status code and the body, NotFoundError and
\* ServiceUnavailableError carry their status code (404, 503) and no body,
\* ValidationError (400, 413) carries neither.
C30_DiagnosticsByErrorClass ==
    \A p \in Procs :
        Refused(p)
        => LET st == response[p][1].status
               e == result[p].error
           IN  /\ result[p].kind = "throw"
               /\ IF st \in {400, 413}
                  THEN /\ e.name = "ValidationError"
                       /\ e.statusCode = Undefined
                       /\ e.response = JUndefined
                  ELSE IF st \in {404, 503}
                  THEN /\ e.name = IF st = 404 THEN "NotFoundError"
                                   ELSE "ServiceUnavailableError"
                       /\ e.statusCode = Some(st)
                       /\ e.response = JUndefined
                  ELSE /\ e.name = "TidepoolError"
                       /\ e.statusCode = Some(st)
                       /\ e.response = BodyGot(p)

\* a 500 answer with the JSON body {error: "overloaded"} reached the caller
\* as the generic error with status 500 and that body
C30_Witness ==
    \E p \in Procs :
        /\ Refused(p)
        /\ bodyEnd[p] = "complete"
        /\ response[p][1].status = 500
        /\ response[p][1].json
        /\ ThrewA(p, "TidepoolError")
        /\ result[p].error.statusCode = Some(500)
        /\ result[p].error.response = JObj([error |-> JStr(<<"overloaded">>)])

\* a 413 answer reached the caller as a ValidationError without status code
\* and without body
ValidationErrorWithoutDiagnostics ==
    \E p \in Procs :
        /\ Refused(p)
        /\ response[p][1].status = 413
        /\ ThrewA(p, "ValidationError")
        /\ result[p].error.statusCode = Undefined
        /\ result[p].error.response = JUndefined

====
